---- MODULE Spec2Model ----
(***************************************************************************)
(* A model of the BaaLS ledger engine: the sled-backed storage adapter,    *)
(* the ledger (initialize_chain / validate_block / apply_block), the PoA   *)
(* consensus block builder and the Runtime with its two mutexes.           *)
(*                                                                         *)
(* Hashes are modelled as injective: the SHA-256 of a value is the tuple   *)
(* of the fields that are fed to the hasher.  An ed25519 signature is the  *)
(* pair (signing key's public key, signed message).  Byte strings used as  *)
(* storage keys are tuples <<encoding, kind, payload>>: `encoding' tells   *)
(* whether the bytes are raw or carry bincode's 8-byte length prefix, so   *)
(* that two encodings of the same value are different keys.                *)
(***************************************************************************)
EXTENDS Integers, Sequences, FiniteSets, TLC

VARIABLES
    store,                \* SledStorage: the default tree `db' and the eight named trees
    current_chain_state,  \* the ChainState handed to the ledger as &mut (the Runtime's cache), <<>> before it is read
    committed,            \* history: the blocks for which apply_block returned Ok, in order
    last,                 \* history: the last ledger/runtime call, its result and the state before it
    runtime,              \* "none" | "up": whether a Runtime value has been constructed
    mempool,              \* Runtime.mempool: Vec<Transaction>
    chain_state,          \* Runtime.chain_state: the value inside the Mutex
    mempool_lock,         \* owner of the mempool mutex (0 = free)
    chain_state_lock,     \* owner of the chain_state mutex (0 = free)
    poisoned,             \* the set of mutexes poisoned by a panic while locked
    pc,                   \* per thread: position inside submit_transaction / produce_block / apply_block
    local,                \* per thread: the transaction being submitted / the block generated or applied
    subject,              \* a Transaction and a Block value in the hands of a caller of types.rs, and what was done to them
    sync                  \* CustomSync: a client and a server peer and the TCP stream between them

vars == <<store, current_chain_state, committed, last, runtime, mempool, chain_state,
          mempool_lock, chain_state_lock, poisoned, pc, local, subject, sync>>

ledgerVars == <<store, current_chain_state, committed, last>>
runtimeVars == <<runtime, mempool, chain_state, mempool_lock, chain_state_lock, poisoned, pc, local>>

-----------------------------------------------------------------------------
(* Bounds of the model *)

MaxBlocks == 2          \* blocks committed on top of genesis
MaxTxPerBlock == 2      \* transactions in one candidate block
MaxAmount == 2          \* the balance a wallet is seeded with; transfers move 1, MaxAmount or MaxAmount + 1
MaxNonce == 2           \* transaction nonces range over 1..MaxNonce
MaxMempool == 2         \* transactions admitted to the mempool
MaxNowSeconds == 2      \* the wall clock reads 0..MaxNowSeconds seconds since the epoch
MaxOps == 2             \* operations a caller of types.rs performs on one Transaction and one Block
MaxInFlight == 2        \* messages written to one stream

U64Modulus == 16        \* 2^64 scaled down: the number of values of a balance (u64)

Keys == {"A", "B"}      \* the ed25519 key pairs; a signing key is named by its public key
Threads == {1, 2}       \* threads calling into the Runtime

-----------------------------------------------------------------------------
(* Data model: types.rs *)

ZeroHash == <<"zero">>

None == <<>>
Some(x) == <<x>>

Ok(v) == [ok |-> TRUE, err |-> "", val |-> v]
Err(e) == [ok |-> FALSE, err |-> e, val |-> <<>>]

Wallet(b, n) == [kind |-> "Wallet", balance |-> b, nonce |-> n, code_hash |-> ZeroHash]
ContractAccount(ch, n) == [kind |-> "Contract", balance |-> 0, nonce |-> n, code_hash |-> ch]

WalletAddr(pk) == <<"Wallet", pk>>
ContractAddr(cid) == <<"Contract", cid>>

Transfer(m) == <<"Transfer", m>>
ContractDeploy(w) == <<"ContractDeploy", w>>
ContractCall(method) == <<"ContractCall", method>>

\* the bytes fed to the hasher for an Option<BTreeMap<String, String>>: nothing
\* for None, the serialized map for Some
MetadataBytes(metadata) == IF metadata = None THEN <<>> ELSE <<metadata[1]>>

\* Transaction::calculate_hash: sender, nonce, timestamp, recipient, payload, metadata
TxHash(tx) ==
    <<"tx", tx.sender, tx.nonce, tx.timestamp, tx.recipient, tx.payload>> \o MetadataBytes(tx.metadata)

ZeroSignature == [signer |-> "none", msg |-> ZeroHash]

\* SigningKey::sign and PublicKey::verify
Sign(sk, msg) == [signer |-> sk, msg |-> msg]
Verify(pk, msg, sig) == sig.signer = pk /\ sig.msg = msg

UnsignedTx(s, n, r, p) ==
    [hash |-> ZeroHash, sender |-> s, nonce |-> n, timestamp |-> 0,
     recipient |-> r, payload |-> p, signature |-> ZeroSignature,
     gas_limit |-> 0, priority |-> 0, metadata |-> None]

\* Transaction::sign
SignTx(tx, sk) ==
    LET h == TxHash(tx) IN [tx EXCEPT !.hash = h, !.signature = Sign(sk, h)]

\* a verification that trusts the stored hash
VerifySignature_trusting_stored_hash(tx) == Verify(tx.sender, tx.hash, tx.signature)

\* Transaction::verify_signature
VerifySignature(tx) ==
    IF tx.hash # TxHash(tx) THEN FALSE ELSE Verify(tx.sender, tx.hash, tx.signature)

\* a block hash that leaves the index out
BlockHash_without_index(b) ==
    <<"block", b.timestamp, b.prev_hash, b.nonce, b.transactions>> \o MetadataBytes(b.metadata)

\* Block::calculate_hash: index, timestamp, prev_hash, nonce, transactions, metadata
BlockHash(b) ==
    <<"block", b.index, b.timestamp, b.prev_hash, b.nonce, b.transactions>> \o MetadataBytes(b.metadata)

ChainState(h, i) ==
    [latest_block_hash |-> h, latest_block_index |-> i,
     accounts_root_hash |-> ZeroHash, total_supply |-> 0]

-----------------------------------------------------------------------------
(* Storage keys.  bincode::serialize of a [u8; 32] is the 32 raw bytes;     *)
(* bincode::serialize of a &str or of a PublicKey (serialize_bytes) puts   *)
(* an 8-byte length in front.                                              *)

RawKey(kind, x) == <<"raw", kind, x>>
LenPrefixedKey(kind, x) == <<"len8", kind, x>>

GlobalCurrent == "global:current"

HeightKey(i) == <<"raw", "height:", i>>
BlockTxKey(bh, th, i) == <<"raw", "block_tx:", <<bh, th, i>>>>

EmptyTree == [k \in {} |-> <<>>]

TreeNames == {"db", "blocks", "transactions", "mempool", "accounts", "contract_code",
              "contract_storage", "chain_state", "tx_by_block"}

\* sled Tree::insert / Tree::remove / Tree::get
Insert(tree, k, v) == [x \in DOMAIN tree \cup {k} |-> IF x = k THEN v ELSE tree[x]]
Remove(tree, k) == [x \in DOMAIN tree \ {k} |-> tree[x]]
Get(tree, k) == IF k \in DOMAIN tree THEN Some(tree[k]) ELSE None

-----------------------------------------------------------------------------
(* bincode encodings of the stored values.  PublicKey serializes with      *)
(* serialize_bytes (8-byte length, then the 32 bytes) and deserializes as  *)
(* a [u8; 32] (32 bytes, no length): a serialized key is not read back.    *)
(* Account and ChainState hold no PublicKey and round-trip unchanged.      *)

EncodePublicKey(pk) == <<"len8", pk>>
DecodePublicKey(bytes) == IF bytes[1] = "raw32" THEN Ok(bytes[2]) ELSE Err("SerializationError")

EncodeTransaction(tx) == [tx EXCEPT !.sender = EncodePublicKey(tx.sender)]
DecodeTransaction(e) ==
    LET pk == DecodePublicKey(e.sender)
    IN  IF pk.ok THEN Ok([e EXCEPT !.sender = pk.val]) ELSE Err("SerializationError")

EncodeBlock(b) ==
    [b EXCEPT !.transactions = [i \in DOMAIN b.transactions |-> EncodeTransaction(b.transactions[i])]]
DecodeBlock(e) ==
    IF \E i \in DOMAIN e.transactions : ~DecodeTransaction(e.transactions[i]).ok
    THEN Err("SerializationError")
    ELSE Ok([e EXCEPT !.transactions =
                [i \in DOMAIN e.transactions |-> DecodeTransaction(e.transactions[i]).val]])

-----------------------------------------------------------------------------
(* SledStorage: storage.rs *)

EmptyStore == [t \in TreeNames |-> EmptyTree]

put_block(s, block) ==
    [s EXCEPT !.blocks = Insert(Insert(s.blocks, RawKey("hash", block.hash), EncodeBlock(block)),
                                HeightKey(block.index), EncodeBlock(block))]

\* Result<Option<Block>, StorageError>
get_block(s, hash) ==
    LET e == Get(s.blocks, RawKey("hash", hash))
    IN  IF e = None THEN Ok(None)
        ELSE IF DecodeBlock(e[1]).ok THEN Ok(Some(DecodeBlock(e[1]).val))
        ELSE Err("StorageError")

get_block_by_height(s, height) ==
    LET e == Get(s.blocks, HeightKey(height))
    IN  IF e = None THEN Ok(None)
        ELSE IF DecodeBlock(e[1]).ok THEN Ok(Some(DecodeBlock(e[1]).val))
        ELSE Err("StorageError")

put_account(s, address, account) ==
    [s EXCEPT !.accounts = Insert(s.accounts, RawKey("pk", address), account)]

\* Option<Account>
get_account(s, address) == Get(s.accounts, RawKey("pk", address))

put_chain_state(s, state) ==
    [s EXCEPT !.chain_state = Insert(s.chain_state, RawKey("str", GlobalCurrent), state)]

\* Option<ChainState>
get_chain_state(s) == Get(s.chain_state, RawKey("str", GlobalCurrent))

put_contract_code(s, contract_id, wasm_bytes) ==
    [s EXCEPT !.contract_code = Insert(s.contract_code, RawKey("hash", contract_id), wasm_bytes)]

get_contract_code(s, contract_id) == Get(s.contract_code, RawKey("hash", contract_id))

index_transaction(s, tx_hash, block_hash, tx_index_in_block) ==
    [s EXCEPT !.tx_by_block =
        Insert(s.tx_by_block, BlockTxKey(block_hash, tx_hash, tx_index_in_block), tx_hash)]

\* Result<Option<Transaction>, StorageError>: the transactions tree, keyed by hash
get_transaction(s, tx_hash) ==
    LET e == Get(s.transactions, RawKey("hash", tx_hash))
    IN  IF e = None THEN Ok(None)
        ELSE IF DecodeTransaction(e[1]).ok THEN Ok(Some(DecodeTransaction(e[1]).val))
        ELSE Err("StorageError")

\* the elements of a set of keys in the order sled iterates them (byte order of
\* the keys, which for hex digests is not modelled: any one fixed order)
RECURSIVE KeyOrder(_)
KeyOrder(ks) ==
    IF ks = {} THEN <<>>
    ELSE LET k == CHOOSE x \in ks : TRUE IN <<k>> \o KeyOrder(ks \ {k})

\* the loop body of get_transactions_by_block: a hash whose transaction is not
\* in the transactions tree is skipped
RECURSIVE FoundTransactions(_, _)
FoundTransactions(s, hashes) ==
    IF hashes = <<>> THEN <<>>
    ELSE LET tx == get_transaction(s, Head(hashes))
         IN  (IF tx.ok /\ tx.val # None THEN <<tx.val[1]>> ELSE <<>>)
                \o FoundTransactions(s, Tail(hashes))

\* Result<Vec<Transaction>, StorageError>: scan_prefix("block_tx:<block hash>:")
\* over the tx_by_block tree, then get_transaction for each hash found
get_transactions_by_block(s, block_hash) ==
    LET keys == KeyOrder({k \in DOMAIN s.tx_by_block : k[3][1] = block_hash})
        hashes == [i \in DOMAIN keys |-> s.tx_by_block[keys[i]]]
    IN  IF \E i \in DOMAIN hashes : ~get_transaction(s, hashes[i]).ok
        THEN Err("StorageError")
        ELSE Ok(FoundTransactions(s, hashes))

\* StorageOperation
PutOp(k, v) == <<"Put", k, v>>
DeleteOp(k) == <<"Delete", k>>

RECURSIVE ApplyOps(_, _)
ApplyOps(tree, ops) ==
    IF ops = <<>> THEN tree
    ELSE LET op == Head(ops)
         IN  ApplyOps(IF op[1] = "Put" THEN Insert(tree, op[2], op[3]) ELSE Remove(tree, op[2]),
                      Tail(ops))

\* SledStorage::apply_batch: one sled::Batch applied to `self.db', the default tree
apply_batch(s, ops) == [s EXCEPT !.db = ApplyOps(s.db, ops)]

-----------------------------------------------------------------------------
(* BaaLSContractEngine: contracts.rs *)

\* ContractId = SHA-256(deployer || wasm_bytes)
ContractIdOf(deployer, wasm_bytes) == <<"contract", deployer, wasm_bytes>>

\* deploy_contract: writes the code straight into the contract_code tree
\* (init_payload is None at the only call site); returns the id and the store
deploy_contract(s, deployer, wasm_bytes) ==
    [id |-> ContractIdOf(deployer, wasm_bytes),
     store |-> put_contract_code(s, ContractIdOf(deployer, wasm_bytes), wasm_bytes)]

\* call_contract: returns Ok(Vec::new()) and touches nothing
call_contract(s, caller, contract_id) == Ok(<<>>)

\* The implementations of the ContractEngine trait the generic Ledger<S, C> is
\* instantiated with: the engine of this crate, and an engine whose calls
\* return Err(ContractError::ExecutionError)
BaaLSEngine == "BaaLSContractEngine"
FailingEngine == "FailingContractEngine"
Engines == {BaaLSEngine, FailingEngine}

\* self.contract_engine.deploy_contract(..): Result<the id and the store>
EngineDeployContract(engine, s, deployer, wasm_bytes) ==
    IF engine = BaaLSEngine THEN Ok(deploy_contract(s, deployer, wasm_bytes))
    ELSE Err("ContractError")

\* self.contract_engine.call_contract(..)
EngineCallContract(engine, s, caller, contract_id) ==
    IF engine = BaaLSEngine THEN call_contract(s, caller, contract_id)
    ELSE Err("ContractError")

-----------------------------------------------------------------------------
(* PoAConsensus: consensus.rs *)

\* a block with its hash field filled in from its other fields
WithHash(b) == [b EXCEPT !.hash = BlockHash(b)]

MakeBlock(index, timestamp, prev_hash, transactions) ==
    WithHash([index |-> index, timestamp |-> timestamp, prev_hash |-> prev_hash,
              hash |-> ZeroHash, nonce |-> 0, transactions |-> transactions,
              metadata |-> None])

\* the key PoAConsensus::new is given as authorized_signer_key
AuthorizedSigner == "A"

\* PoAConsensus::validate_block (the inherent method and the trait method that
\* forwards to it): Ok(()) for every block
consensus_validate_block(block) == "Ok"

\* Option<signature>: the authority signature a block carries.  Block has no
\* signature field, every block is built with metadata: None, and sign_block
\* drops the signature it computes
BlockSignature(block) == None

generate_block_at_prev_index(pending_transactions, prev_block) ==
    IF pending_transactions = <<>> THEN Err("NoPendingTransactions")
    ELSE Ok(MakeBlock(prev_block.index, prev_block.timestamp + 1, prev_block.hash,
                      pending_transactions))

\* ConsensusEngine::generate_block
generate_block(pending_transactions, prev_block) ==
    IF pending_transactions = <<>> THEN Err("NoPendingTransactions")
    ELSE Ok(MakeBlock(prev_block.index + 1, prev_block.timestamp + 1, prev_block.hash,
                      pending_transactions))

-----------------------------------------------------------------------------
(* Ledger: ledger.rs *)

GenesisBlock == MakeBlock(0, 0, ZeroHash, <<>>)

InitialChainState == ChainState(GenesisBlock.hash, 0)

\* Ledger::initialize_chain
initialize_chain(s) ==
    IF get_chain_state(s) # None THEN [result |-> "Ok", store |-> s]
    ELSE [result |-> "Ok",
          store |-> apply_batch(s,
              << PutOp(RawKey("hash", GenesisBlock.hash), EncodeBlock(GenesisBlock)),
                 PutOp(LenPrefixedKey("str", GlobalCurrent), InitialChainState) >>)]

validate_block_without_prev_hash(s, block, state) ==
    IF block.index # state.latest_block_index + 1 THEN "BlockValidation"
    ELSE IF BlockHash(block) # block.hash THEN "BlockValidation"
    ELSE IF block.index > 0 /\ ~get_block(s, block.prev_hash).ok THEN "StorageError"
    ELSE IF block.index > 0 /\ get_block(s, block.prev_hash).val = None THEN "NotFound"
    ELSE IF block.index > 0 /\ block.timestamp <= get_block(s, block.prev_hash).val[1].timestamp
         THEN "BlockValidation"
    ELSE IF \E i \in DOMAIN block.transactions : ~VerifySignature(block.transactions[i])
         THEN "BlockValidation"
    ELSE "Ok"

\* Ledger::validate_block: "Ok" or the error it returns
validate_block(s, block, state) ==
    IF block.index # state.latest_block_index + 1 THEN "BlockValidation"
    ELSE IF block.prev_hash # state.latest_block_hash THEN "BlockValidation"
    ELSE IF BlockHash(block) # block.hash THEN "BlockValidation"
    ELSE IF block.index > 0 /\ ~get_block(s, block.prev_hash).ok THEN "StorageError"
    ELSE IF block.index > 0 /\ get_block(s, block.prev_hash).val = None THEN "NotFound"
    ELSE IF block.index > 0 /\ block.timestamp <= get_block(s, block.prev_hash).val[1].timestamp
         THEN "BlockValidation"
    ELSE IF \E i \in DOMAIN block.transactions : ~VerifySignature(block.transactions[i])
         THEN "BlockValidation"
    ELSE "Ok"

\* accounts_to_update: BTreeMap<PublicKey, Account>
MapInsert(m, k, v) == [x \in DOMAIN m \cup {k} |-> IF x = k THEN v ELSE m[x]]

\* One pass of the `for tx in &block.transactions' loop of apply_block.
\* acc = [err, updates, store, ops, engine]: the error returned so far (or ""),
\* accounts_to_update, the store (deploy_contract writes to it), batch.ops and
\* the ledger's contract engine.
\* u64 `+=': on overflow a build with overflow checks (the dev profile) panics,
\* a build without them (the release profile) keeps the sum modulo 2^64.
\* None stands for the panic
AddU64(a, b, overflow_checks) ==
    IF a + b < U64Modulus THEN Some(a + b)
    ELSE IF overflow_checks THEN None
    ELSE Some((a + b) % U64Modulus)

ApplyTx(acc, tx) ==
    LET stored == get_account(acc.store, tx.sender)
    IN
    IF stored = None THEN [acc EXCEPT !.err = "AccountNotFound"]
    ELSE IF stored[1].nonce + 1 # tx.nonce
    THEN [acc EXCEPT !.err = "InvalidNonce", !.detail = <<stored[1].nonce + 1, tx.nonce>>]
    ELSE
    LET sender_account == [stored[1] EXCEPT !.nonce = stored[1].nonce + 1]
        upd1 == MapInsert(acc.updates, tx.sender, sender_account)
        done(a) == [a EXCEPT !.ops = Append(a.ops, DeleteOp(RawKey("hash", tx.hash)))]
    IN
    CASE tx.payload[1] = "Transfer" ->
            LET amount == tx.payload[2]
            IN
            IF upd1[tx.sender].kind # "Wallet" THEN [acc EXCEPT !.err = "StateTransition"]
            ELSE IF upd1[tx.sender].balance < amount THEN [acc EXCEPT !.err = "InsufficientBalance"]
            ELSE
            LET upd2 == [upd1 EXCEPT ![tx.sender].balance = @ - amount]
            IN
            IF tx.recipient[1] = "Contract" THEN [acc EXCEPT !.err = "StateTransition"]
            ELSE
            LET pk == tx.recipient[2]
                recipient_account == get_account(acc.store, pk)
            IN
            IF recipient_account # None
            THEN IF recipient_account[1].kind = "Wallet"
                 THEN LET sum == AddU64(recipient_account[1].balance, amount, acc.overflow_checks)
                      IN  IF sum = None THEN [acc EXCEPT !.err = "panic"]
                          ELSE done([acc EXCEPT !.updates =
                                MapInsert(upd2, pk, [recipient_account[1] EXCEPT !.balance = sum[1]])])
                 ELSE [acc EXCEPT !.err = "StateTransition"]
            ELSE done([acc EXCEPT !.updates = MapInsert(upd2, pk, Wallet(amount, 0))])
      [] tx.payload[1] = "ContractDeploy" ->
            LET d == EngineDeployContract(acc.engine, acc.store, tx.sender, tx.payload[2])
            IN  IF ~d.ok THEN [acc EXCEPT !.err = d.err]
                ELSE done([acc EXCEPT !.store = d.val.store,
                                      !.updates = MapInsert(upd1, tx.sender,
                                                      ContractAccount(d.val.id, sender_account.nonce))])
      [] tx.payload[1] = "ContractCall" ->
            IF tx.recipient[1] # "Contract" THEN [acc EXCEPT !.err = "InvalidTransactionPayload"]
            ELSE \* the Result of call_contract is bound to _execution_result and dropped
                 LET execution_result ==
                        EngineCallContract(acc.engine, acc.store, tx.sender, tx.recipient[2])
                 IN  done([acc EXCEPT !.updates = upd1])
      [] OTHER -> done([acc EXCEPT !.updates = upd1])

RECURSIVE ApplyTxs(_, _)
ApplyTxs(acc, txs) ==
    IF txs = <<>> \/ acc.err # "" THEN acc
    ELSE ApplyTxs(ApplyTx(acc, Head(txs)), Tail(txs))

RECURSIVE IndexTransactions(_, _, _)
IndexTransactions(s, block, i) ==
    IF i > Len(block.transactions) THEN s
    ELSE IndexTransactions(index_transaction(s, block.transactions[i].hash, block.hash, i - 1),
                           block, i + 1)

AccountPuts(updates) ==
    LET RECURSIVE puts(_)
        puts(ks) == IF ks = {} THEN <<>>
                    ELSE LET k == CHOOSE x \in ks : TRUE
                         IN  <<PutOp(LenPrefixedKey("pk", k), updates[k])>> \o puts(ks \ {k})
    IN  puts(DOMAIN updates)

\* Ledger::apply_block(block, &mut current_chain_state) of a ledger built on the
\* given contract engine; `fail' says whether sled rejects the batch.  Returns
\* the result, the store and the chain state as the call leaves them.
\* a chain state update that also raises total_supply
UpdateChainState_minting(state, block) ==
    [state EXCEPT !.latest_block_hash = block.hash,
                  !.latest_block_index = block.index,
                  !.total_supply = state.total_supply + 1]

\* Ledger::apply_block, the update of current_chain_state
UpdateChainState(state, block) ==
    [state EXCEPT !.latest_block_hash = block.hash,
                  !.latest_block_index = block.index]

apply_block_in_build(s, block, state, fail, engine, overflow_checks) ==
    LET acc == ApplyTxs([err |-> "", detail |-> <<>>, updates |-> EmptyTree, store |-> s,
                         ops |-> <<>>, engine |-> engine, overflow_checks |-> overflow_checks],
                        block.transactions)
        new_state == UpdateChainState(state, block)
        ops == acc.ops \o AccountPuts(acc.updates)
                       \o <<PutOp(LenPrefixedKey("str", GlobalCurrent), new_state)>>
        indexed == IndexTransactions(acc.store, block, 1)
    IN
    IF acc.err # ""
    THEN [result |-> acc.err, detail |-> acc.detail, store |-> acc.store, state |-> state]
    ELSE IF fail
    THEN [result |-> "StorageError", detail |-> <<>>, store |-> indexed, state |-> new_state]
    ELSE [result |-> "Ok", detail |-> <<>>, store |-> apply_batch(indexed, ops), state |-> new_state]

\* Ledger::apply_block on balances that stay below 2^64: the build makes no difference
apply_block_with_engine(s, block, state, fail, engine) ==
    apply_block_in_build(s, block, state, fail, engine, TRUE)

\* Ledger::apply_block of the ledger the Runtime builds, on BaaLSContractEngine
apply_block(s, block, state, fail) == apply_block_with_engine(s, block, state, fail, BaaLSEngine)

-----------------------------------------------------------------------------
(* Inputs *)

TransferTx(s, r, m, n) == SignTx(UnsignedTx(s, n, WalletAddr(r), Transfer(m)), s)
DeployTx(s, n) == SignTx(UnsignedTx(s, n, ContractAddr(ZeroHash), ContractDeploy("wasm")), s)

\* the transactions clients hand in: a transfer the seeded balance pays and one
\* it cannot pay, a transfer to oneself, a transfer of the whole balance, later
\* nonces of one transfer, a deployment, an unsigned transfer
TxPool ==
    {TransferTx("A", "B", m, 1) : m \in {1, MaxAmount + 1}}
    \cup {TransferTx("A", "A", 1, 1), TransferTx("B", "A", MaxAmount, 1)}
    \cup {TransferTx("A", "B", 1, n) : n \in 2..MaxNonce}
    \cup {DeployTx("A", 1)}
    \cup {UnsignedTx("A", 1, WalletAddr("B"), Transfer(1))}

RECURSIVE SeqsUpTo(_, _)
SeqsUpTo(S, n) ==
    IF n = 0 THEN {<<>>}
    ELSE SeqsUpTo(S, n - 1) \cup {Append(q, x) : q \in {r \in SeqsUpTo(S, n - 1) : Len(r) = n - 1}, x \in S}

TxSeqs == SeqsUpTo(TxPool, MaxTxPerBlock)

\* the transactions handed to Runtime::submit_transaction (the CLI builds nonce
\* 0): signed transfers, an unsigned one, one signed with another key, and one
\* whose nonce was changed after signing
SubmitPool ==
    {TransferTx("A", "B", 1, n) : n \in 0..MaxNonce}
    \cup {UnsignedTx("A", 1, WalletAddr("B"), Transfer(1))}
    \cup {SignTx(UnsignedTx("A", 1, WalletAddr("B"), Transfer(1)), "B")}
    \cup {[TransferTx("A", "B", 1, 1) EXCEPT !.nonce = MaxNonce]}

Range(q) == {q[i] : i \in DOMAIN q}

\* the blocks consensus generates on top of the block the chain state names
GeneratedBlocks(s, state) ==
    LET p == get_block(s, state.latest_block_hash)
    IN  IF p.ok /\ p.val # None
        THEN {generate_block(txs, p.val[1]).val : txs \in TxSeqs \ {<<>>}}
        ELSE {}

\* blocks built elsewhere (a peer): right or wrong index, timestamp, prev_hash, hash
ForeignBlocks(state) ==
    {MakeBlock(i, ts, ph, <<>>) :
        i \in {state.latest_block_index, state.latest_block_index + 1},
        ts \in {state.latest_block_index, state.latest_block_index + 1},
        ph \in {state.latest_block_hash, ZeroHash, GenesisBlock.hash}}
    \cup {[MakeBlock(state.latest_block_index + 1, state.latest_block_index + 1,
                     state.latest_block_hash, <<>>) EXCEPT !.hash = ZeroHash]}

CandidateBlocks(s, state) == GeneratedBlocks(s, state) \cup ForeignBlocks(state)

-----------------------------------------------------------------------------
(* The ledger and its store, driven through their public operations *)

\* the record of a call: its result, its detail (the values an error reports,
\* or the calling thread and the transaction it handed in), the state it
\* started from and, where the call is followed up, the block it was given
Call(op, result, detail) ==
    [op |-> op, result |-> result, detail |-> detail,
     pre_store |-> store, pre_state |-> current_chain_state, block |-> None]

NoCall == [op |-> "none", result |-> "", detail |-> <<>>,
           pre_store |-> EmptyStore, pre_state |-> None, block |-> None]

InitLedgerAndRuntime ==
    /\ store = EmptyStore
    /\ current_chain_state = None
    /\ committed = <<>>
    /\ last = NoCall
    /\ runtime = "none"
    /\ mempool = <<>>
    /\ chain_state = None
    /\ mempool_lock = 0
    /\ chain_state_lock = 0
    /\ poisoned = {}
    /\ pc = [t \in Threads |-> "idle"]
    /\ local = [t \in Threads |-> <<>>]

\* no value of types.rs is under test and no peer is running
NoSubject == [tx |-> None, block |-> None, ops |-> <<>>]
NoSync == [phase |-> "none"]

Init ==
    /\ InitLedgerAndRuntime
    /\ subject = NoSubject
    /\ sync = NoSync

\* Ledger::initialize_chain
InitializeChain ==
    LET r == initialize_chain(store)
    IN  /\ store' = r.store
        /\ last' = Call("initialize_chain", r.result, <<>>)
        /\ UNCHANGED <<current_chain_state, committed>>
        /\ UNCHANGED <<runtimeVars, subject, sync>>

\* Storage::put_account: before the chain is driven, a wallet is seeded for a
\* key that has no account yet
PutAccount ==
    \E pk \in Keys :
        /\ current_chain_state = None
        /\ runtime = "none"
        /\ get_account(store, pk) = None
        /\ store' = put_account(store, pk, Wallet(MaxAmount, 0))
        /\ last' = NoCall
        /\ UNCHANGED <<current_chain_state, committed>>
        /\ UNCHANGED <<runtimeVars, subject, sync>>

\* Storage::put_block: the genesis block or a committed block is stored in the blocks tree
PutBlock ==
    \E b \in {x \in {GenesisBlock} : RawKey("hash", x.hash) \in DOMAIN store.db} \cup Range(committed) :
        /\ store' = put_block(store, b)
        /\ store' # store
        /\ last' = NoCall
        /\ UNCHANGED <<current_chain_state, committed>>
        /\ UNCHANGED <<runtimeVars, subject, sync>>

\* Storage::put_chain_state: before the chain is driven, the chain state the
\* last batch wrote is stored in the chain_state tree
PutChainState ==
    /\ current_chain_state = None
    /\ LenPrefixedKey("str", GlobalCurrent) \in DOMAIN store.db
    /\ store' = put_chain_state(store, store.db[LenPrefixedKey("str", GlobalCurrent)])
    /\ store' # store
    /\ last' = NoCall
    /\ UNCHANGED <<current_chain_state, committed>>
    /\ UNCHANGED <<runtimeVars, subject, sync>>

\* the ledger's caller takes its ChainState from storage.get_chain_state(), as Runtime::new does
LoadChainState ==
    /\ current_chain_state = None
    /\ get_chain_state(store) # None
    /\ current_chain_state' = get_chain_state(store)
    /\ last' = NoCall
    /\ UNCHANGED <<store, committed>>
    /\ UNCHANGED <<runtimeVars, subject, sync>>

\* the ledger's caller keeps the ChainState that initialize_chain built and committed
KeepInitialChainState ==
    /\ current_chain_state = None
    /\ RawKey("hash", GenesisBlock.hash) \in DOMAIN store.db
    /\ current_chain_state' = Some(InitialChainState)
    /\ last' = NoCall
    /\ UNCHANGED <<store, committed>>
    /\ UNCHANGED <<runtimeVars, subject, sync>>

\* ledger.validate_block(&block, &state) and, when it returns Ok,
\* ledger.apply_block(block, &mut state)
SubmitBlock ==
    /\ current_chain_state # None
    /\ Len(committed) < MaxBlocks
    /\ \E block \in CandidateBlocks(store, current_chain_state[1]) :
        LET v == validate_block(store, block, current_chain_state[1])
        IN  IF v # "Ok"
            THEN /\ last' = Call("validate_block", v, <<>>)
                 /\ UNCHANGED <<store, current_chain_state, committed>>
            ELSE \E fail \in BOOLEAN :
                 LET r == apply_block(store, block, current_chain_state[1], fail)
                 IN  /\ store' = r.store
                     /\ current_chain_state' = Some(r.state)
                     /\ committed' = IF r.result = "Ok" THEN Append(committed, block) ELSE committed
                     /\ last' = Call("apply_block", r.result, r.detail)
    /\ UNCHANGED <<runtimeVars, subject, sync>>

Next ==
    \/ InitializeChain
    \/ PutAccount
    \/ PutBlock
    \/ PutChainState
    \/ LoadChainState
    \/ KeepInitialChainState
    \/ SubmitBlock

Spec == Init /\ [][Next]_vars

-----------------------------------------------------------------------------
(* Ledger::apply_block on one block: the store is set up as above, then one  *)
(* block generated from pending transactions is validated and applied, and   *)
(* the call is recorded with its block.                                      *)

\* the pending transactions a block is generated from: those above, a nonce
\* that skips one, and a transfer to a contract address
ApplyPool ==
    TxPool
    \cup {TransferTx("A", "B", 1, MaxNonce + 1)}
    \cup {SignTx(UnsignedTx("A", 1, ContractAddr(ContractIdOf("A", "wasm")), Transfer(1)), "A")}

\* consensus.generate_block on the stored predecessor, ledger.validate_block and,
\* when it returns Ok, ledger.apply_block
ApplyBlock ==
    /\ current_chain_state # None
    /\ last.block = None
    /\ \E txs \in SeqsUpTo(ApplyPool, MaxTxPerBlock) \ {<<>>} :
        LET p == get_block(store, current_chain_state[1].latest_block_hash)
        IN  /\ p.ok /\ p.val # None
            /\ LET block == generate_block(txs, p.val[1]).val
                   v == validate_block(store, block, current_chain_state[1])
               IN  IF v # "Ok"
                   THEN /\ last' = [Call("validate_block", v, <<>>) EXCEPT !.block = Some(block)]
                        /\ UNCHANGED <<store, current_chain_state, committed>>
                   ELSE \E fail \in BOOLEAN :
                        LET r == apply_block(store, block, current_chain_state[1], fail)
                        IN  /\ store' = r.store
                            /\ current_chain_state' = Some(r.state)
                            /\ committed' = IF r.result = "Ok" THEN Append(committed, block)
                                                               ELSE committed
                            /\ last' = [Call("apply_block", r.result, r.detail)
                                            EXCEPT !.block = Some(block)]
    /\ UNCHANGED <<runtimeVars, subject, sync>>

\* the store is set up, then one block is handed in
NextApply ==
    \/ last.block = None /\ InitializeChain
    \/ last.block = None /\ PutAccount
    \/ last.block = None /\ PutBlock
    \/ last.block = None /\ PutChainState
    \/ last.block = None /\ LoadChainState
    \/ last.block = None /\ KeepInitialChainState
    \/ ApplyBlock

SpecApply == Init /\ [][NextApply]_vars

-----------------------------------------------------------------------------
(* Ledger::validate_block on one block: the chain is driven as in Spec, then *)
(* one candidate block is validated and the call is recorded with its block. *)

\* ledger.validate_block(&block, &state)
ValidateBlock ==
    /\ current_chain_state # None
    /\ last.block = None
    /\ \E block \in CandidateBlocks(store, current_chain_state[1]) :
        last' = [Call("validate_block", validate_block(store, block, current_chain_state[1]), <<>>)
                    EXCEPT !.block = Some(block)]
    /\ UNCHANGED <<store, current_chain_state, committed>>
    /\ UNCHANGED <<runtimeVars, subject, sync>>

NextValidate ==
    \/ last.block = None /\ InitializeChain
    \/ last.block = None /\ PutAccount
    \/ last.block = None /\ PutBlock
    \/ last.block = None /\ PutChainState
    \/ last.block = None /\ LoadChainState
    \/ last.block = None /\ KeepInitialChainState
    \/ last.block = None /\ SubmitBlock
    \/ ValidateBlock

SpecValidate == Init /\ [][NextValidate]_vars

-----------------------------------------------------------------------------
(* Ledger::apply_block of a ledger on either contract engine: the store is   *)
(* set up, then one block of contract transactions is validated and applied. *)

CallTx(s, n, r) == SignTx(UnsignedTx(s, n, r, ContractCall("method")), s)

\* a deployment, calls of the deployed contract by either key, a call addressed
\* to a wallet, a transfer
ContractPool ==
    {DeployTx("A", 1), TransferTx("A", "B", 1, 1), CallTx("A", 1, WalletAddr("B"))}
    \cup {CallTx(s, n, ContractAddr(ContractIdOf("A", "wasm"))) : s \in Keys, n \in 1..2}

ApplyBlockOnEngine ==
    /\ current_chain_state # None
    /\ last.block = None
    /\ \E txs \in SeqsUpTo(ContractPool, MaxTxPerBlock) \ {<<>>}, engine \in Engines :
        LET p == get_block(store, current_chain_state[1].latest_block_hash)
        IN  /\ p.ok /\ p.val # None
            /\ LET block == generate_block(txs, p.val[1]).val
                   v == validate_block(store, block, current_chain_state[1])
               IN  IF v # "Ok"
                   THEN /\ last' = [Call("validate_block", v, <<engine>>) EXCEPT !.block = Some(block)]
                        /\ UNCHANGED <<store, current_chain_state, committed>>
                   ELSE \E fail \in BOOLEAN :
                        LET r == apply_block_with_engine(store, block, current_chain_state[1],
                                                         fail, engine)
                        IN  /\ store' = r.store
                            /\ current_chain_state' = Some(r.state)
                            /\ committed' = IF r.result = "Ok" THEN Append(committed, block)
                                                               ELSE committed
                            /\ last' = [Call("apply_block", r.result, <<engine>>)
                                            EXCEPT !.block = Some(block)]
    /\ UNCHANGED <<runtimeVars, subject, sync>>

NextContract ==
    \/ last.block = None /\ InitializeChain
    \/ last.block = None /\ PutAccount
    \/ last.block = None /\ PutBlock
    \/ last.block = None /\ PutChainState
    \/ last.block = None /\ LoadChainState
    \/ last.block = None /\ KeepInitialChainState
    \/ ApplyBlockOnEngine

SpecContract == Init /\ [][NextContract]_vars

-----------------------------------------------------------------------------
(* Blocks whose transactions name an address or an account of the other     *)
(* kind.  A Contract account reaches the accounts tree through              *)
(* Storage::put_account only.                                               *)

\* Storage::put_account of a Contract account for a key that has no account yet
PutContractAccount ==
    \E pk \in Keys :
        /\ current_chain_state = None
        /\ get_account(store, pk) = None
        /\ store' = put_account(store, pk, ContractAccount(ContractIdOf(pk, "wasm"), 0))
        /\ last' = NoCall
        /\ UNCHANGED <<current_chain_state, committed>>
        /\ UNCHANGED <<runtimeVars, subject, sync>>

TransferToContractTx(s, m, n) ==
    SignTx(UnsignedTx(s, n, ContractAddr(ContractIdOf("A", "wasm")), Transfer(m)), s)

\* transfers between the keys, a transfer addressed to a contract, a call
\* addressed to a wallet, a deployment
KindPool ==
    {TransferTx("A", "B", 1, 1), TransferTx("B", "A", 1, 1), TransferToContractTx("A", 1, 1),
     CallTx("A", 1, WalletAddr("B")), DeployTx("B", 1)}

ApplyBlockOfKinds ==
    /\ current_chain_state # None
    /\ last.block = None
    /\ \E txs \in SeqsUpTo(KindPool, MaxTxPerBlock) \ {<<>>} :
        LET p == get_block(store, current_chain_state[1].latest_block_hash)
        IN  /\ p.ok /\ p.val # None
            /\ LET block == generate_block(txs, p.val[1]).val
                   v == validate_block(store, block, current_chain_state[1])
               IN  IF v # "Ok"
                   THEN /\ last' = [Call("validate_block", v, <<>>) EXCEPT !.block = Some(block)]
                        /\ UNCHANGED <<store, current_chain_state, committed>>
                   ELSE \E fail \in BOOLEAN :
                        LET r == apply_block(store, block, current_chain_state[1], fail)
                        IN  /\ store' = r.store
                            /\ current_chain_state' = Some(r.state)
                            /\ committed' = IF r.result = "Ok" THEN Append(committed, block)
                                                               ELSE committed
                            /\ last' = [Call("apply_block", r.result, r.detail)
                                            EXCEPT !.block = Some(block)]
    /\ UNCHANGED <<runtimeVars, subject, sync>>

NextKinds ==
    \/ last.block = None /\ InitializeChain
    \/ last.block = None /\ PutAccount
    \/ last.block = None /\ PutContractAccount
    \/ last.block = None /\ PutBlock
    \/ last.block = None /\ PutChainState
    \/ last.block = None /\ LoadChainState
    \/ last.block = None /\ KeepInitialChainState
    \/ ApplyBlockOfKinds

SpecKinds == Init /\ [][NextKinds]_vars

-----------------------------------------------------------------------------
(* Balances at the top of the u64 range, in a build with and in a build      *)
(* without overflow checks                                                  *)

\* Storage::put_account of a wallet that holds u64::MAX, for a key that has no account yet
PutFullAccount ==
    \E pk \in Keys :
        /\ current_chain_state = None
        /\ get_account(store, pk) = None
        /\ store' = put_account(store, pk, Wallet(U64Modulus - 1, 0))
        /\ last' = NoCall
        /\ UNCHANGED <<current_chain_state, committed>>
        /\ UNCHANGED <<runtimeVars, subject, sync>>

\* transfers of 1 and of MaxAmount between the keys
OverflowPool == {TransferTx(s, r, m, 1) : s \in Keys, r \in Keys, m \in {1, MaxAmount}}

ApplyBlockInBuild ==
    /\ current_chain_state # None
    /\ last.block = None
    /\ \E txs \in SeqsUpTo(OverflowPool, 1) \ {<<>>}, overflow_checks \in BOOLEAN :
        LET p == get_block(store, current_chain_state[1].latest_block_hash)
        IN  /\ p.ok /\ p.val # None
            /\ LET block == generate_block(txs, p.val[1]).val
                   v == validate_block(store, block, current_chain_state[1])
               IN  IF v # "Ok"
                   THEN /\ last' = [Call("validate_block", v, <<overflow_checks>>)
                                        EXCEPT !.block = Some(block)]
                        /\ UNCHANGED <<store, current_chain_state, committed>>
                   ELSE \E fail \in BOOLEAN :
                        LET r == apply_block_in_build(store, block, current_chain_state[1], fail,
                                                      BaaLSEngine, overflow_checks)
                        IN  /\ store' = r.store
                            /\ current_chain_state' = Some(r.state)
                            /\ committed' = IF r.result = "Ok" THEN Append(committed, block)
                                                               ELSE committed
                            /\ last' = [Call("apply_block", r.result, <<overflow_checks>>)
                                            EXCEPT !.block = Some(block)]
    /\ UNCHANGED <<runtimeVars, subject, sync>>

NextOverflow ==
    \/ last.block = None /\ InitializeChain
    \/ last.block = None /\ PutAccount
    \/ last.block = None /\ PutFullAccount
    \/ last.block = None /\ PutBlock
    \/ last.block = None /\ PutChainState
    \/ last.block = None /\ LoadChainState
    \/ last.block = None /\ KeepInitialChainState
    \/ ApplyBlockInBuild

SpecOverflow == Init /\ [][NextOverflow]_vars

-----------------------------------------------------------------------------
(* Runtime: runtime.rs.  A std::sync::Mutex is not reentrant: lock() on a   *)
(* mutex the calling thread already holds never returns; it deadlocks or   *)
(* panics.  A panic unwinds the thread, which drops the guards it holds    *)
(* and poisons their mutexes; lock().unwrap() on a poisoned mutex panics.  *)

Others(t) == Threads \ {t}

\* what a panic of thread t leaves behind
Panic(t) ==
    /\ pc' = [pc EXCEPT ![t] = "panicked"]
    /\ poisoned' = poisoned \cup {m \in {"mempool"} : mempool_lock = t}
                            \cup {m \in {"chain_state"} : chain_state_lock = t}
    /\ mempool_lock' = IF mempool_lock = t THEN 0 ELSE mempool_lock
    /\ chain_state_lock' = IF chain_state_lock = t THEN 0 ELSE chain_state_lock

\* Runtime::new: initialize_chain, then the cache is read with get_chain_state
RuntimeNew ==
    /\ runtime = "none"
    /\ LET r == initialize_chain(store)
           state == get_chain_state(r.store)
       IN  /\ store' = r.store
           /\ IF state = None
              THEN /\ last' = Call("Runtime::new", "ChainInitializationError", <<>>)
                   /\ UNCHANGED <<runtime, chain_state>>
              ELSE /\ last' = Call("Runtime::new", "Ok", <<>>)
                   /\ runtime' = "up"
                   /\ chain_state' = state
    /\ UNCHANGED <<current_chain_state, committed, mempool, mempool_lock, chain_state_lock,
                   poisoned, pc, local>>
    /\ UNCHANGED <<subject, sync>>

\* submit_transaction, lines 93-98: verify_signature, then chain_state.lock()
SubmitTransaction(t) ==
    /\ runtime = "up"
    /\ pc[t] = "idle"
    /\ Len(mempool) < MaxMempool
    /\ \E transaction \in SubmitPool :
        IF ~VerifySignature(transaction)
        THEN /\ last' = Call("submit_transaction", "InvalidTransaction", <<t, transaction>>)
             /\ UNCHANGED <<pc, local>>
        ELSE /\ pc' = [pc EXCEPT ![t] = "submit_lock_chain_state"]
             /\ local' = [local EXCEPT ![t] = transaction]
             /\ UNCHANGED last
    /\ UNCHANGED <<store, current_chain_state, committed, runtime, mempool, chain_state,
                   mempool_lock, chain_state_lock, poisoned>>
    /\ UNCHANGED <<subject, sync>>

SubmitLockChainState_without_nonce_check(t) ==
    /\ pc[t] = "submit_lock_chain_state"
    /\ IF "chain_state" \in poisoned
       THEN /\ Panic(t)
            /\ UNCHANGED <<last, local>>
       ELSE /\ chain_state_lock = 0
            /\ chain_state_lock' = t
            /\ pc' = [pc EXCEPT ![t] = "submit_lock_mempool"]
            /\ UNCHANGED <<last, local, mempool_lock, poisoned>>
    /\ UNCHANGED <<store, current_chain_state, committed, runtime, mempool, chain_state>>
    /\ UNCHANGED <<subject, sync>>

\* submit_transaction, lines 98-108: the chain_state lock is taken, the sender's
\* stored nonce is compared; the guard is kept until the function returns
SubmitLockChainState(t) ==
    /\ pc[t] = "submit_lock_chain_state"
    /\ IF "chain_state" \in poisoned
       THEN /\ Panic(t)
            /\ UNCHANGED <<last, local>>
       ELSE /\ chain_state_lock = 0
            /\ LET stored == get_account(store, local[t].sender)
                   sender_account == IF stored = None THEN Wallet(0, 0) ELSE stored[1]
               IN  IF local[t].nonce <= sender_account.nonce
                   THEN /\ last' = Call("submit_transaction", "InvalidTransaction", <<t, local[t]>>)
                        /\ pc' = [pc EXCEPT ![t] = "idle"]
                        /\ local' = [local EXCEPT ![t] = <<>>]
                        /\ UNCHANGED chain_state_lock
                   ELSE /\ chain_state_lock' = t
                        /\ pc' = [pc EXCEPT ![t] = "submit_lock_mempool"]
                        /\ UNCHANGED <<last, local>>
            /\ UNCHANGED <<mempool_lock, poisoned>>
    /\ UNCHANGED <<store, current_chain_state, committed, runtime, mempool, chain_state>>
    /\ UNCHANGED <<subject, sync>>

\* submit_transaction, lines 113-115: mempool.lock() while the chain_state guard
\* is held, push, return Ok
SubmitLockMempool(t) ==
    /\ pc[t] = "submit_lock_mempool"
    /\ IF "mempool" \in poisoned
       THEN /\ Panic(t)
            /\ UNCHANGED <<last, local, mempool>>
       ELSE /\ mempool_lock = 0
            /\ mempool' = Append(mempool, local[t])
            /\ chain_state_lock' = 0
            /\ pc' = [pc EXCEPT ![t] = "idle"]
            /\ local' = [local EXCEPT ![t] = <<>>]
            /\ last' = Call("submit_transaction", "Ok", <<t, local[t]>>)
            /\ UNCHANGED <<mempool_lock, poisoned>>
    /\ UNCHANGED <<store, current_chain_state, committed, runtime, chain_state>>
    /\ UNCHANGED <<subject, sync>>

\* produce_block, lines 119-122: mempool.lock(); an empty mempool returns
\* NoPendingTransactions
ProduceBlock(t) ==
    /\ runtime = "up"
    /\ pc[t] = "idle"
    /\ IF "mempool" \in poisoned
       THEN /\ Panic(t)
            /\ UNCHANGED last
       ELSE /\ mempool_lock = 0
            /\ IF mempool = <<>>
               THEN /\ last' = Call("produce_block", "NoPendingTransactions", <<t>>)
                    /\ UNCHANGED <<pc, mempool_lock>>
               ELSE /\ mempool_lock' = t
                    /\ pc' = [pc EXCEPT ![t] = "produce_lock_chain_state"]
                    /\ UNCHANGED last
            /\ UNCHANGED <<chain_state_lock, poisoned>>
    /\ UNCHANGED <<store, current_chain_state, committed, runtime, mempool, chain_state, local>>
    /\ UNCHANGED <<subject, sync>>

ProduceLockChainState_clearing_mempool(t) ==
    /\ pc[t] = "produce_lock_chain_state"
    /\ IF "chain_state" \in poisoned
       THEN /\ Panic(t)
            /\ UNCHANGED <<last, local, mempool>>
       ELSE /\ chain_state_lock = 0
            /\ LET prev_block == get_block(store, chain_state[1].latest_block_hash)
               IN  IF ~prev_block.ok \/ prev_block.val = None
                   THEN /\ last' = Call("produce_block",
                                        IF prev_block.ok THEN "NotFound" ELSE "StorageError", <<t>>)
                        /\ mempool' = <<>>
                        /\ mempool_lock' = 0
                        /\ pc' = [pc EXCEPT ![t] = "idle"]
                        /\ UNCHANGED <<chain_state_lock, local>>
                   ELSE /\ local' = [local EXCEPT ![t] = generate_block(mempool, prev_block.val[1]).val]
                        /\ chain_state_lock' = t
                        /\ mempool_lock' = 0
                        /\ pc' = [pc EXCEPT ![t] = "produce_relock_chain_state"]
                        /\ UNCHANGED <<last, mempool>>
            /\ UNCHANGED poisoned
    /\ UNCHANGED <<store, current_chain_state, committed, runtime, chain_state>>
    /\ UNCHANGED <<subject, sync>>

\* produce_block, lines 124-130: chain_state.lock() while the mempool guard is
\* held, the previous block is read, the block is generated, the mempool guard
\* is dropped; the chain_state guard `current_chain_state' stays alive
ProduceLockChainState(t) ==
    /\ pc[t] = "produce_lock_chain_state"
    /\ IF "chain_state" \in poisoned
       THEN /\ Panic(t)
            /\ UNCHANGED <<last, local>>
       ELSE /\ chain_state_lock = 0
            /\ LET prev_block == get_block(store, chain_state[1].latest_block_hash)
               IN  IF ~prev_block.ok \/ prev_block.val = None
                   THEN /\ last' = Call("produce_block",
                                        IF prev_block.ok THEN "NotFound" ELSE "StorageError", <<t>>)
                        /\ mempool_lock' = 0
                        /\ pc' = [pc EXCEPT ![t] = "idle"]
                        /\ UNCHANGED <<chain_state_lock, local>>
                   ELSE /\ local' = [local EXCEPT ![t] = generate_block(mempool, prev_block.val[1]).val]
                        /\ chain_state_lock' = t
                        /\ mempool_lock' = 0
                        /\ pc' = [pc EXCEPT ![t] = "produce_relock_chain_state"]
                        /\ UNCHANGED last
            /\ UNCHANGED poisoned
    /\ UNCHANGED <<store, current_chain_state, committed, runtime, mempool, chain_state>>
    /\ UNCHANGED <<subject, sync>>

\* produce_block, line 132: chain_state.lock() again, by the thread that holds
\* the guard of line 124: the call never returns (deadlock or panic)
ProduceRelockChainState(t) ==
    /\ pc[t] = "produce_relock_chain_state"
    /\ chain_state_lock = t
    /\ \/ /\ pc' = [pc EXCEPT ![t] = "deadlocked"]
          /\ UNCHANGED <<mempool_lock, chain_state_lock, poisoned>>
       \/ Panic(t)
    /\ UNCHANGED <<store, current_chain_state, committed, last, runtime, mempool, chain_state, local>>
    /\ UNCHANGED <<subject, sync>>

NextRuntime ==
    \/ RuntimeNew
    \/ PutAccount
    \/ PutBlock
    \/ PutChainState
    \/ \E t \in Threads : SubmitTransaction(t)
    \/ \E t \in Threads : SubmitLockChainState(t)
    \/ \E t \in Threads : SubmitLockMempool(t)
    \/ \E t \in Threads : ProduceBlock(t)
    \/ \E t \in Threads : ProduceLockChainState(t)
    \/ \E t \in Threads : ProduceRelockChainState(t)

SpecRuntime == Init /\ [][NextRuntime]_vars

\* a thread inside produce_block runs on: it executes its next lock() call
SpecRuntimeFair ==
    SpecRuntime /\ \A t \in Threads : WF_vars(ProduceLockChainState(t) \/ ProduceRelockChainState(t))

\* produce_block is invoked again and again, and a thread inside it runs on
SpecRuntimeProducing ==
    SpecRuntime /\ \A t \in Threads :
        WF_vars(ProduceBlock(t) \/ ProduceLockChainState(t) \/ ProduceRelockChainState(t))

-----------------------------------------------------------------------------
(* A block is committed through the ledger, then a Runtime is opened on the *)
(* store and one caller submits transactions to it.                         *)

NextCommitThenSubmit ==
    \/ runtime = "none" /\ InitializeChain
    \/ runtime = "none" /\ PutAccount
    \/ runtime = "none" /\ PutBlock
    \/ runtime = "none" /\ PutChainState
    \/ runtime = "none" /\ LoadChainState
    \/ runtime = "none" /\ KeepInitialChainState
    \/ runtime = "none" /\ SubmitBlock
    \/ RuntimeNew
    \/ SubmitTransaction(1)
    \/ SubmitLockChainState(1)
    \/ SubmitLockMempool(1)

SpecCommitThenSubmit == Init /\ [][NextCommitThenSubmit]_vars

-----------------------------------------------------------------------------
(* Ledger::apply_block write by write.  Thread 1 runs apply_block; pc[1] is  *)
(* its position and local[1] holds the block, the loop index, the loop's     *)
(* accumulator and the batch.  Every state between two steps is a state a    *)
(* concurrent reader of the store can see.                                   *)

\* validate_block, then apply_block lines 144-145: the batch and
\* accounts_to_update are created
ApplyBegin ==
    /\ current_chain_state # None
    /\ last.block = None
    /\ pc[1] = "idle"
    /\ \E txs \in SeqsUpTo(ApplyPool, MaxTxPerBlock) \ {<<>>} :
        LET p == get_block(store, current_chain_state[1].latest_block_hash)
        IN  /\ p.ok /\ p.val # None
            /\ LET block == generate_block(txs, p.val[1]).val
                   v == validate_block(store, block, current_chain_state[1])
               IN  IF v # "Ok"
                   THEN /\ last' = [Call("validate_block", v, <<>>) EXCEPT !.block = Some(block)]
                        /\ UNCHANGED <<pc, local>>
                   ELSE /\ last' = [Call("apply_block", "running", <<>>) EXCEPT !.block = Some(block)]
                        /\ pc' = [pc EXCEPT ![1] = "apply_loop"]
                        /\ local' = [local EXCEPT ![1] =
                                        [block |-> block, i |-> 1,
                                         acc |-> [err |-> "", detail |-> <<>>, updates |-> EmptyTree,
                                                  store |-> store, ops |-> <<>>, engine |-> BaaLSEngine]]]
    /\ UNCHANGED <<store, current_chain_state, committed>>
    /\ UNCHANGED <<runtime, mempool, chain_state, mempool_lock, chain_state_lock, poisoned>>
    /\ UNCHANGED <<subject, sync>>

\* apply_block lines 147-248: one pass of the transaction loop (deploy_contract
\* writes the store); after the last pass the account puts are staged, the
\* chain state is advanced and its put is staged
ApplyLoopStep ==
    /\ pc[1] = "apply_loop"
    /\ LET l == local[1]
           block == l.block
       IN  IF l.i <= Len(block.transactions)
           THEN LET acc == ApplyTx([l.acc EXCEPT !.store = store], block.transactions[l.i])
                IN  /\ store' = acc.store
                    /\ IF acc.err # ""
                       THEN /\ last' = [last EXCEPT !.result = acc.err, !.detail = acc.detail]
                            /\ pc' = [pc EXCEPT ![1] = "idle"]
                            /\ local' = [local EXCEPT ![1] = <<>>]
                       ELSE /\ local' = [local EXCEPT ![1] = [l EXCEPT !.i = @ + 1, !.acc = acc]]
                            /\ UNCHANGED <<last, pc>>
                    /\ UNCHANGED current_chain_state
           ELSE LET new_state == [current_chain_state[1] EXCEPT
                                    !.latest_block_hash = block.hash,
                                    !.latest_block_index = block.index]
                IN  /\ current_chain_state' = Some(new_state)
                    /\ local' = [local EXCEPT ![1] =
                            [l EXCEPT !.i = 1,
                                      !.acc.ops = l.acc.ops \o AccountPuts(l.acc.updates)
                                            \o <<PutOp(LenPrefixedKey("str", GlobalCurrent), new_state)>>]]
                    /\ pc' = [pc EXCEPT ![1] = "apply_index"]
                    /\ UNCHANGED <<store, last>>
    /\ UNCHANGED committed
    /\ UNCHANGED <<runtime, mempool, chain_state, mempool_lock, chain_state_lock, poisoned>>
    /\ UNCHANGED <<subject, sync>>

\* apply_block lines 251-253: one index_transaction, written to the tx_by_block tree
ApplyIndexStep ==
    /\ pc[1] = "apply_index"
    /\ LET l == local[1]
           block == l.block
       IN  /\ store' = index_transaction(store, block.transactions[l.i].hash, block.hash, l.i - 1)
           /\ local' = [local EXCEPT ![1] = [l EXCEPT !.i = @ + 1]]
           /\ pc' = [pc EXCEPT ![1] = IF l.i = Len(block.transactions)
                                      THEN "apply_batch" ELSE "apply_index"]
    /\ UNCHANGED <<current_chain_state, committed, last>>
    /\ UNCHANGED <<runtime, mempool, chain_state, mempool_lock, chain_state_lock, poisoned>>
    /\ UNCHANGED <<subject, sync>>

\* apply_block lines 255-256: apply_batch, which sled rejects or applies
ApplyBatchStep ==
    /\ pc[1] = "apply_batch"
    /\ \E fail \in BOOLEAN :
        IF fail
        THEN /\ last' = [last EXCEPT !.result = "StorageError"]
             /\ UNCHANGED <<store, committed>>
        ELSE /\ store' = apply_batch(store, local[1].acc.ops)
             /\ committed' = Append(committed, local[1].block)
             /\ last' = [last EXCEPT !.result = "Ok"]
    /\ pc' = [pc EXCEPT ![1] = "idle"]
    /\ local' = [local EXCEPT ![1] = <<>>]
    /\ UNCHANGED current_chain_state
    /\ UNCHANGED <<runtime, mempool, chain_state, mempool_lock, chain_state_lock, poisoned>>
    /\ UNCHANGED <<subject, sync>>

NextApplySteps ==
    \/ last.block = None /\ InitializeChain
    \/ last.block = None /\ PutAccount
    \/ last.block = None /\ PutBlock
    \/ last.block = None /\ PutChainState
    \/ last.block = None /\ LoadChainState
    \/ last.block = None /\ KeepInitialChainState
    \/ ApplyBegin
    \/ ApplyLoopStep
    \/ ApplyIndexStep
    \/ ApplyBatchStep

SpecApplySteps == Init /\ [][NextApplySteps]_vars

-----------------------------------------------------------------------------
(* types.rs called directly: a caller holds one Transaction and one Block,  *)
(* whose fields are public, signs the transaction and assigns to fields.    *)

EmptyMap == [k \in {} |-> ""]

\* Option<BTreeMap<String, String>>
Metadatas == {None, Some(EmptyMap), Some([k \in {"memo"} |-> "x"])}

\* transactions as a caller builds them: hash [0; 32], signature [0; 64]
FreshTransactions ==
    {[UnsignedTx(s, 1, WalletAddr("B"), Transfer(1)) EXCEPT !.metadata = m] :
        s \in Keys, m \in Metadatas}

FreshBlocks ==
    {[index |-> 0, timestamp |-> 0, prev_hash |-> ZeroHash, hash |-> ZeroHash, nonce |-> 0,
      transactions |-> <<UnsignedTx("A", 1, WalletAddr("A"), Transfer(1))>>, metadata |-> None]}

InitTypes ==
    /\ InitLedgerAndRuntime
    /\ sync = NoSync
    /\ subject \in {[tx |-> t, block |-> b, ops |-> <<>>] : t \in FreshTransactions, b \in FreshBlocks}

\* the record of one operation: its name, its argument and the values before it
Did(op, arg) == Append(subject.ops, [op |-> op, arg |-> arg, tx |-> subject.tx, block |-> subject.block])

\* the transactions that differ from tx in one hashed field
HashedFieldChanges(tx) ==
    ({[tx EXCEPT !.sender = s] : s \in Keys}
     \cup {[tx EXCEPT !.nonce = n] : n \in 1..MaxNonce}
     \cup {[tx EXCEPT !.timestamp = ts] : ts \in 0..1}
     \cup {[tx EXCEPT !.recipient = r] : r \in {WalletAddr(k) : k \in Keys} \cup {ContractAddr(ZeroHash)}}
     \cup {[tx EXCEPT !.payload = p] : p \in {Transfer(m) : m \in 1..MaxAmount} \cup {ContractCall("method")}}
     \cup {[tx EXCEPT !.metadata = m] : m \in Metadatas}) \ {tx}

\* the transactions that differ from tx in the stored hash, gas_limit or priority
UnhashedFieldChanges(tx) ==
    ({[tx EXCEPT !.hash = h] : h \in {ZeroHash, TxHash(tx)}}
     \cup {[tx EXCEPT !.gas_limit = g] : g \in 0..1}
     \cup {[tx EXCEPT !.priority = p] : p \in 0..1}) \ {tx}

\* the blocks that differ from b in one hashed field other than the index
BlockFieldChanges(b) ==
    ({[b EXCEPT !.timestamp = ts] : ts \in 0..1}
     \cup {[b EXCEPT !.nonce = n] : n \in 0..1}
     \cup {[b EXCEPT !.prev_hash = h] : h \in {ZeroHash, GenesisBlock.hash}}
     \cup {[b EXCEPT !.transactions = txs] :
                txs \in {<<>>, <<UnsignedTx("A", 1, WalletAddr("A"), Transfer(1))>>,
                         <<[UnsignedTx("A", 1, WalletAddr("A"), Transfer(1)) EXCEPT !.gas_limit = 1]>>}}
     \cup {[b EXCEPT !.metadata = m] : m \in Metadatas}) \ {b}

\* tx.sign(&signing_key)
SignTransaction ==
    /\ Len(subject.ops) < MaxOps
    /\ \E sk \in Keys :
        subject' = [subject EXCEPT !.tx = SignTx(subject.tx, sk), !.ops = Did("sign", sk)]
    /\ UNCHANGED <<ledgerVars, runtimeVars, sync>>

\* an assignment to a hashed field of the transaction, followed or not by
\* tx.hash = tx.calculate_hash()
SetHashedField ==
    /\ Len(subject.ops) < MaxOps
    /\ \E changed \in HashedFieldChanges(subject.tx), recompute \in BOOLEAN :
        subject' = [subject EXCEPT
                        !.tx = IF recompute THEN [changed EXCEPT !.hash = TxHash(changed)] ELSE changed,
                        !.ops = Did("set_hashed_field", recompute)]
    /\ UNCHANGED <<ledgerVars, runtimeVars, sync>>

\* an assignment to tx.hash, tx.gas_limit or tx.priority
SetUnhashedField ==
    /\ Len(subject.ops) < MaxOps
    /\ \E changed \in UnhashedFieldChanges(subject.tx) :
        subject' = [subject EXCEPT !.tx = changed, !.ops = Did("set_unhashed_field", <<>>)]
    /\ UNCHANGED <<ledgerVars, runtimeVars, sync>>

\* an assignment to tx.signature: the zero signature, or the signature of
\* either key over the stored hash or over the zero hash
SetSignature ==
    /\ Len(subject.ops) < MaxOps
    /\ \E sig \in ({ZeroSignature} \cup {Sign(sk, h) : sk \in Keys, h \in {subject.tx.hash, ZeroHash}})
                    \ {subject.tx.signature} :
        subject' = [subject EXCEPT !.tx.signature = sig, !.ops = Did("set_signature", sig)]
    /\ UNCHANGED <<ledgerVars, runtimeVars, sync>>

\* an assignment to block.index
SetBlockIndex ==
    /\ Len(subject.ops) < MaxOps
    /\ \E i \in (0..MaxBlocks) \ {subject.block.index} :
        subject' = [subject EXCEPT !.block.index = i, !.ops = Did("set_block_index", i)]
    /\ UNCHANGED <<ledgerVars, runtimeVars, sync>>

\* an assignment to another hashed field of the block
SetBlockField ==
    /\ Len(subject.ops) < MaxOps
    /\ \E changed \in BlockFieldChanges(subject.block) :
        subject' = [subject EXCEPT !.block = changed, !.ops = Did("set_block_field", <<>>)]
    /\ UNCHANGED <<ledgerVars, runtimeVars, sync>>

\* block.hash = block.calculate_hash(), or the zero hash again
SetBlockHash ==
    /\ Len(subject.ops) < MaxOps
    /\ \E h \in {ZeroHash, BlockHash(subject.block)} \ {subject.block.hash} :
        subject' = [subject EXCEPT !.block.hash = h, !.ops = Did("set_block_hash", h)]
    /\ UNCHANGED <<ledgerVars, runtimeVars, sync>>

NextTypes ==
    \/ SignTransaction
    \/ SetHashedField
    \/ SetUnhashedField
    \/ SetSignature
    \/ SetBlockIndex
    \/ SetBlockField
    \/ SetBlockHash

SpecTypes == InitTypes /\ [][NextTypes]_vars

-----------------------------------------------------------------------------
(* Sync layer: sync.rs.  Messages travel as bytes.  A byte is <<"u8", n>>,  *)
(* or the i-th byte of a key or of a hash, <<"key", pk, i>> and             *)
(* <<"hash", h, i>>.  bincode writes a u32 and an enum variant index as 4   *)
(* little-endian bytes, a u64 and a Vec length as 8, a [u8; 32] as its 32   *)
(* bytes, and a PublicKey (serialize_bytes) as an 8-byte length and the 32  *)
(* bytes.  The numbers of the model stay below 2^16.                        *)

U8(n) == <<"u8", n>>

U32Bytes(n) == <<U8(n % 256), U8((n \div 256) % 256), U8(0), U8(0)>>
U64Bytes(n) == U32Bytes(n) \o U32Bytes(0)

KeyBytes(pk) == [i \in 1..32 |-> <<"key", pk, i>>]
HashBytes(h) == [i \in 1..32 |-> <<"hash", h, i>>]

\* impl Serialize for PublicKey
PublicKeyBytes(pk) == U64Bytes(32) \o KeyBytes(pk)

\* a u32 read that finds bytes of a key or of a hash, or a value of 2^16 or
\* more: a number above every buffer length and every variant index
TooLarge == 65536

\* u32::from_le_bytes / bincode's u32
ReadU32(bytes) ==
    IF \A i \in 1..4 : bytes[i][1] = "u8"
    THEN IF bytes[3][2] = 0 /\ bytes[4][2] = 0 THEN bytes[1][2] + 256 * bytes[2][2] ELSE TooLarge
    ELSE TooLarge

\* bincode's u64
ReadU64(bytes) ==
    IF ReadU32(SubSeq(bytes, 5, 8)) = 0 THEN ReadU32(SubSeq(bytes, 1, 4)) ELSE TooLarge

\* bincode's [u8; 32]: the hash the bytes were written from, or the bytes themselves
ReadHash(bytes) ==
    IF bytes[1][1] = "hash" /\ bytes = HashBytes(bytes[1][2]) THEN bytes[1][2]
    ELSE <<"bytes", bytes>>

\* impl Deserialize for PublicKey: 32 bytes read as a [u8; 32] and handed to
\* PublicKey::from_bytes; bytes that are not the bytes of a key (they start
\* with the length prefix) are not taken for a curve point
ReadPublicKey(bytes) ==
    IF \E pk \in Keys : bytes = KeyBytes(pk)
    THEN Ok(CHOOSE pk \in Keys : bytes = KeyBytes(pk))
    ELSE Err("SerializationError")

\* enum NetworkMessage
Handshake(peer_id, version) == <<"Handshake", peer_id, version>>
HandshakeAck(peer_id, version) == <<"HandshakeAck", peer_id, version>>
GetChainHead == <<"GetChainHead">>
ChainHeadResponse(latest_block_hash, height) == <<"ChainHeadResponse", latest_block_hash, height>>
GetBlocks(from_height, to_height) == <<"GetBlocks", from_height, to_height>>
BlocksResponse(blocks) == <<"BlocksResponse", blocks>>
NewBlockAnnouncement(block_hash, height) == <<"NewBlockAnnouncement", block_hash, height>>
Ping == <<"Ping">>
Pong == <<"Pong">>

\* bincode::serialize(&Block) of a block without transactions and without metadata
BlockBytes(b) ==
    U64Bytes(b.index) \o U64Bytes(b.timestamp) \o HashBytes(b.prev_hash) \o HashBytes(b.hash)
        \o U64Bytes(b.nonce) \o U64Bytes(0) \o <<U8(0)>>

BlockBytesLen == 97

RECURSIVE BlocksBytes(_)
BlocksBytes(blocks) ==
    IF blocks = <<>> THEN <<>> ELSE BlockBytes(Head(blocks)) \o BlocksBytes(Tail(blocks))

\* bincode::deserialize::<Block>: a block that announces transactions fails
\* at the sender of the first one
ReadBlock(bytes) ==
    IF Len(bytes) < BlockBytesLen THEN Err("SerializationError")
    ELSE IF ReadU64(SubSeq(bytes, 89, 96)) # 0 \/ bytes[97] # U8(0) THEN Err("SerializationError")
    ELSE Ok([index |-> ReadU64(SubSeq(bytes, 1, 8)),
             timestamp |-> ReadU64(SubSeq(bytes, 9, 16)),
             prev_hash |-> ReadHash(SubSeq(bytes, 17, 48)),
             hash |-> ReadHash(SubSeq(bytes, 49, 80)),
             nonce |-> ReadU64(SubSeq(bytes, 81, 88)),
             transactions |-> <<>>,
             metadata |-> None])

RECURSIVE ReadBlocks(_, _)
ReadBlocks(bytes, count) ==
    IF count = 0 THEN Ok(<<>>)
    ELSE LET b == ReadBlock(bytes)
             rest == ReadBlocks(SubSeq(bytes, BlockBytesLen + 1, Len(bytes)), count - 1)
         IN  IF ~b.ok \/ ~rest.ok THEN Err("SerializationError")
             ELSE Ok(<<b.val>> \o rest.val)

\* bincode::serialize(&NetworkMessage): the variant index, then the fields
SerializeMessage(m) ==
    CASE m[1] = "Handshake" -> U32Bytes(0) \o PublicKeyBytes(m[2]) \o U32Bytes(m[3])
      [] m[1] = "HandshakeAck" -> U32Bytes(1) \o PublicKeyBytes(m[2]) \o U32Bytes(m[3])
      [] m[1] = "GetChainHead" -> U32Bytes(2)
      [] m[1] = "ChainHeadResponse" -> U32Bytes(3) \o HashBytes(m[2]) \o U64Bytes(m[3])
      [] m[1] = "GetBlocks" -> U32Bytes(4) \o U64Bytes(m[2]) \o U64Bytes(m[3])
      [] m[1] = "BlocksResponse" -> U32Bytes(5) \o U64Bytes(Len(m[2])) \o BlocksBytes(m[2])
      [] m[1] = "NewBlockAnnouncement" -> U32Bytes(6) \o HashBytes(m[2]) \o U64Bytes(m[3])
      [] m[1] = "Ping" -> U32Bytes(7)
      [] m[1] = "Pong" -> U32Bytes(8)

\* bincode::deserialize::<NetworkMessage>: bytes after the value are ignored
DeserializeMessage(bytes) ==
    IF Len(bytes) < 4 THEN Err("SerializationError")
    ELSE
    LET variant == ReadU32(SubSeq(bytes, 1, 4))
        rest == SubSeq(bytes, 5, Len(bytes))
    IN
    CASE variant \in {0, 1} ->
            IF Len(rest) < 36 \/ ~ReadPublicKey(SubSeq(rest, 1, 32)).ok THEN Err("SerializationError")
            ELSE Ok(<<IF variant = 0 THEN "Handshake" ELSE "HandshakeAck",
                      ReadPublicKey(SubSeq(rest, 1, 32)).val, ReadU32(SubSeq(rest, 33, 36))>>)
      [] variant = 2 -> Ok(GetChainHead)
      [] variant \in {3, 6} ->
            IF Len(rest) < 40 THEN Err("SerializationError")
            ELSE Ok(<<IF variant = 3 THEN "ChainHeadResponse" ELSE "NewBlockAnnouncement",
                      ReadHash(SubSeq(rest, 1, 32)), ReadU64(SubSeq(rest, 33, 40))>>)
      [] variant = 4 ->
            IF Len(rest) < 16 THEN Err("SerializationError")
            ELSE Ok(GetBlocks(ReadU64(SubSeq(rest, 1, 8)), ReadU64(SubSeq(rest, 9, 16))))
      [] variant = 5 ->
            IF Len(rest) < 8 \/ ReadU64(SubSeq(rest, 1, 8)) = TooLarge THEN Err("SerializationError")
            ELSE LET blocks == ReadBlocks(SubSeq(rest, 9, Len(rest)), ReadU64(SubSeq(rest, 1, 8)))
                 IN  IF blocks.ok THEN Ok(BlocksResponse(blocks.val)) ELSE Err("SerializationError")
      [] variant = 7 -> Ok(Ping)
      [] variant = 8 -> Ok(Pong)
      [] OTHER -> Err("SerializationError")

\* MessageFrame::new
MessageFrameNew(message) == Ok([length |-> Len(SerializeMessage(message)), message |-> message])

\* MessageFrame::to_bytes
to_bytes(frame) == Ok(U32Bytes(frame.length) \o SerializeMessage(frame.message))

\* MessageFrame::from_bytes
from_bytes(data) ==
    IF Len(data) < 4 THEN Err("InvalidMessage")
    ELSE LET length == ReadU32(SubSeq(data, 1, 4))
         IN  IF Len(data) - 4 < length THEN Err("InvalidMessage")
             ELSE LET message == DeserializeMessage(SubSeq(data, 5, length + 4))
                  IN  IF ~message.ok THEN Err("SerializationError")
                      ELSE Ok([length |-> length, message |-> message.val])

\* CustomSync::send_message: the bytes written to the stream
send_message(stream, message) == stream \o to_bytes(MessageFrameNew(message).val).val

\* read_exact can return: the stream holds the 4 bytes of a length and that many bytes after them
CanReceive(stream) ==
    /\ Len(stream) >= 4
    /\ Len(stream) - 4 >= ReadU32(SubSeq(stream, 1, 4))

\* CustomSync::receive_message: the Result it returns and the bytes it leaves on the stream
receive_message(stream) ==
    LET length == ReadU32(SubSeq(stream, 1, 4))
        message_buffer == SubSeq(stream, 5, length + 4)
        frame == from_bytes(message_buffer)
    IN  [result |-> IF frame.ok THEN Ok(frame.val.message) ELSE Err(frame.err),
         stream |-> SubSeq(stream, length + 5, Len(stream))]

-----------------------------------------------------------------------------
(* Framing: a caller takes one message through MessageFrame::new, to_bytes  *)
(* and from_bytes, or writes messages to a stream with send_message and     *)
(* reads them from its other end with receive_message.                      *)

Messages ==
    {Handshake(pk, 1) : pk \in Keys} \cup {HandshakeAck(pk, 1) : pk \in Keys}
    \cup {GetChainHead, Ping, Pong}
    \cup {ChainHeadResponse(h, i) : h \in {ZeroHash, GenesisBlock.hash}, i \in 0..MaxBlocks}
    \cup {NewBlockAnnouncement(h, i) : h \in {ZeroHash, GenesisBlock.hash}, i \in 0..MaxBlocks}
    \cup {GetBlocks(f, u) : f \in (0..MaxBlocks) \cup {7}, u \in 0..MaxBlocks}
    \cup {BlocksResponse(<<>>), BlocksResponse(<<GenesisBlock>>)}

NoFrames ==
    [phase |-> "idle", message |-> None, frame |-> None, bytes |-> None, decoded |-> None,
     stream |-> <<>>, sent |-> <<>>, received |-> <<>>]

InitFrames ==
    /\ InitLedgerAndRuntime
    /\ subject = NoSubject
    /\ sync = NoFrames

\* MessageFrame::new(message)
NewFrame ==
    /\ sync.phase = "idle"
    /\ \E message \in Messages :
        sync' = [sync EXCEPT !.phase = "frame", !.message = Some(message),
                             !.frame = Some(MessageFrameNew(message).val)]
    /\ UNCHANGED <<ledgerVars, runtimeVars, subject>>

\* frame.to_bytes()
FrameToBytes ==
    /\ sync.phase = "frame"
    /\ sync.bytes = None
    /\ sync' = [sync EXCEPT !.bytes = Some(to_bytes(sync.frame[1]).val)]
    /\ UNCHANGED <<ledgerVars, runtimeVars, subject>>

\* MessageFrame::from_bytes(&bytes)
FrameFromBytes ==
    /\ sync.phase = "frame"
    /\ sync.bytes # None
    /\ sync.decoded = None
    /\ sync' = [sync EXCEPT !.decoded = Some(from_bytes(sync.bytes[1]))]
    /\ UNCHANGED <<ledgerVars, runtimeVars, subject>>

\* Self::send_message(&mut stream, message)
SendMessage ==
    /\ sync.phase \in {"idle", "stream"}
    /\ Len(sync.sent) < MaxInFlight
    /\ \E message \in Messages :
        sync' = [sync EXCEPT !.phase = "stream",
                             !.stream = send_message(sync.stream, message),
                             !.sent = Append(sync.sent, message)]
    /\ UNCHANGED <<ledgerVars, runtimeVars, subject>>

\* Self::receive_message(&mut stream) on the other end; after an error the
\* reader gives the stream up
ReceiveMessage ==
    /\ sync.phase = "stream"
    /\ Len(sync.received) < Len(sync.sent)
    /\ \A i \in DOMAIN sync.received : sync.received[i].ok
    /\ CanReceive(sync.stream)
    /\ LET r == receive_message(sync.stream)
       IN  sync' = [sync EXCEPT !.stream = r.stream, !.received = Append(sync.received, r.result)]
    /\ UNCHANGED <<ledgerVars, runtimeVars, subject>>

NextFrames ==
    \/ NewFrame
    \/ FrameToBytes
    \/ FrameFromBytes
    \/ SendMessage
    \/ ReceiveMessage

SpecFrames == InitFrames /\ [][NextFrames]_vars

-----------------------------------------------------------------------------
(* Handshake: a CustomSync node (the client) runs sync_with_peer against a  *)
(* node (the server) whose start_server accepts the connection and spawns   *)
(* handle_connection.  c2s and s2c are the bytes in flight in the two       *)
(* directions of the TCP stream.  A side that has returned has dropped its  *)
(* end: the other side then reads end-of-file once the bytes are consumed.  *)

InitHandshake ==
    /\ InitLedgerAndRuntime
    /\ subject = NoSubject
    /\ \E client_id \in Keys, server_id \in Keys :
        sync = [phase |-> "handshake", client_id |-> client_id, server_id |-> server_id,
                known_peers |-> {}, recorded |-> {}, acked |-> {},
                c2s |-> <<>>, s2c |-> <<>>, client_sent |-> <<>>,
                client_pc |-> "idle", server_pc |-> "listening",
                client_result |-> None, server_result |-> None]

\* CustomSync::add_peer on the server, before the connection
AddPeer ==
    /\ sync.client_pc = "idle"
    /\ \E pk \in Keys \ sync.known_peers :
        sync' = [sync EXCEPT !.known_peers = sync.known_peers \cup {pk}]
    /\ UNCHANGED <<ledgerVars, runtimeVars, subject>>

\* the client returns from sync_with_peer with the given error
ClientReturns(s, err) == [s EXCEPT !.client_pc = "returned", !.client_result = Some(Err(err))]

\* the server returns from handle_connection
ServerReturns(s, result) == [s EXCEPT !.server_pc = "returned", !.server_result = Some(result)]

\* the client's receive_message: it returns once the frame has arrived, or
\* with a NetworkError at end-of-file
ClientCanReceive ==
    \/ CanReceive(sync.s2c)
    \/ sync.server_pc = "returned"

ClientReceive ==
    IF CanReceive(sync.s2c)
    THEN receive_message(sync.s2c)
    ELSE [result |-> Err("NetworkError"), stream |-> sync.s2c]

\* one step of CustomSync::sync_with_peer
SyncWithPeerStep ==
    /\ sync.phase = "handshake"
    /\ CASE sync.client_pc = "idle" ->
                \* TcpStream::connect; the listener accepts and spawns handle_connection
                sync' = [sync EXCEPT !.client_pc = "connected", !.server_pc = "accepted"]
         [] sync.client_pc = "connected" ->
                sync' = [sync EXCEPT
                            !.c2s = send_message(sync.c2s, Handshake(sync.client_id, 1)),
                            !.client_sent = Append(sync.client_sent, Handshake(sync.client_id, 1)),
                            !.client_pc = "await_handshake_ack"]
         [] sync.client_pc = "await_handshake_ack" ->
                /\ ClientCanReceive
                /\ LET r == ClientReceive
                       s == [sync EXCEPT !.s2c = r.stream]
                   IN  sync' = IF ~r.result.ok THEN ClientReturns(s, r.result.err)
                               ELSE IF r.result.val[1] = "HandshakeAck"
                               THEN [s EXCEPT !.client_pc = "handshake_done"]
                               ELSE ClientReturns(s, "AuthenticationFailed")
         [] sync.client_pc = "handshake_done" ->
                sync' = [sync EXCEPT
                            !.c2s = send_message(sync.c2s, GetChainHead),
                            !.client_sent = Append(sync.client_sent, GetChainHead),
                            !.client_pc = "await_chain_head"]
         [] sync.client_pc = "await_chain_head" ->
                /\ ClientCanReceive
                /\ LET r == ClientReceive
                       s == [sync EXCEPT !.s2c = r.stream]
                   IN  sync' = IF ~r.result.ok THEN ClientReturns(s, r.result.err)
                               ELSE IF r.result.val[1] = "ChainHeadResponse"
                               THEN ClientReturns(s, "SynchronizationError")
                               ELSE ClientReturns(s, "InvalidMessage")
         [] OTHER -> FALSE
    /\ UNCHANGED <<ledgerVars, runtimeVars, subject>>

\* handle_connection, lines 184-202: the frame read from the first n bytes
HandleResponse(s, data) ==
    LET frame == from_bytes(data)
    IN  IF ~frame.ok THEN ServerReturns(s, Err(frame.err))
        ELSE IF frame.val.message[1] = "HandshakeAck"
        THEN IF frame.val.message[3] # 1 THEN ServerReturns(s, Err("NetworkError"))
             ELSE ServerReturns([s EXCEPT
                                    !.known_peers = s.known_peers \cup {frame.val.message[2]},
                                    !.recorded = s.recorded \cup {frame.val.message[2]},
                                    !.acked = s.acked \cup {frame.val.message[2]}],
                                Ok(<<>>))
        ELSE ServerReturns(s, Err("InvalidMessage"))

\* one step of CustomSync::handle_connection: it writes its Handshake, then
\* reads once; read returns the bytes that have arrived so far, at most 1024,
\* or 0 at end-of-file
HandleConnectionStep ==
    /\ sync.phase = "handshake"
    /\ CASE sync.server_pc = "accepted" ->
                sync' = [sync EXCEPT
                            !.s2c = send_message(sync.s2c, Handshake(sync.server_id, 1)),
                            !.server_pc = "read_response"]
         [] sync.server_pc = "read_response" ->
                IF sync.c2s = <<>>
                THEN /\ sync.client_pc = "returned"
                     /\ sync' = ServerReturns(sync, Err("NetworkError"))
                ELSE \E n \in 1..Len(sync.c2s) :
                        /\ n <= 1024
                        /\ sync' = HandleResponse(
                                        [sync EXCEPT !.c2s = SubSeq(sync.c2s, n + 1, Len(sync.c2s))],
                                        SubSeq(sync.c2s, 1, n))
         [] OTHER -> FALSE
    /\ UNCHANGED <<ledgerVars, runtimeVars, subject>>

NextHandshake ==
    \/ AddPeer
    \/ SyncWithPeerStep
    \/ HandleConnectionStep

\* both tasks run on: sync_with_peer and handle_connection take their next step
SpecHandshake ==
    /\ InitHandshake
    /\ [][NextHandshake]_vars
    /\ WF_vars(SyncWithPeerStep)
    /\ WF_vars(HandleConnectionStep)

-----------------------------------------------------------------------------
(* Properties *)

RECURSIVE Flatten(_)
Flatten(blocks) ==
    IF blocks = <<>> THEN <<>> ELSE Head(blocks).transactions \o Flatten(Tail(blocks))

\* the transactions of the committed blocks, in the order they were applied
AppliedTransactions == Flatten(committed)

RECURSIVE TransactionsFrom(_, _)
TransactionsFrom(txs, pk) ==
    IF txs = <<>> THEN <<>>
    ELSE (IF Head(txs).sender = pk THEN <<Head(txs)>> ELSE <<>>) \o TransactionsFrom(Tail(txs), pk)

\* the nonces of the applied transactions of one sender, in order
AppliedNonces(pk) ==
    LET txs == TransactionsFrom(AppliedTransactions, pk)
    IN  [i \in DOMAIN txs |-> txs[i].nonce]

\* the balance get_account reports for a key (0 when there is no wallet)
BalanceOf(s, pk) ==
    IF get_account(s, pk) # None /\ get_account(s, pk)[1].kind = "Wallet"
    THEN get_account(s, pk)[1].balance ELSE 0

RECURSIVE SumBalances(_, _)
SumBalances(s, ks) ==
    IF ks = {} THEN 0
    ELSE LET k == CHOOSE x \in ks : TRUE IN BalanceOf(s, k) + SumBalances(s, ks \ {k})

TotalBalance(s) == SumBalances(s, Keys)

LastCommitted == committed[Len(committed)]

AppliedOk == last.op = "apply_block" /\ last.result = "Ok"

\* C1: chain linearity: the i-th committed block has index i and its prev_hash
\* is the hash of the committed block of index i - 1 (the genesis block for i = 1)
ChainLinearity ==
    \A i \in DOMAIN committed :
        /\ committed[i].index = i
        /\ committed[i].prev_hash = IF i = 1 THEN GenesisBlock.hash ELSE committed[i - 1].hash

\* C1 witness: two blocks are committed on top of genesis, the second with transactions
ChainLinearityWitness ==
    /\ Len(committed) = 2
    /\ committed[2].transactions # <<>>
    /\ committed[2].prev_hash = committed[1].hash

\* C2: commit atomicity: when apply_block returns the StorageError of a failed
\* apply_batch, every tree and the chain state are as they were before the call
CommitAtomicity ==
    (last.op = "apply_block" /\ last.result = "StorageError")
        => (store = last.pre_store /\ current_chain_state = last.pre_state)

\* C3: when apply_block fails on a transaction (a state-transition error), the
\* store and the chain state are as they were before the call
AllOrNothingOnTransactionError ==
    (last.op = "apply_block"
        /\ last.result \in {"InvalidNonce", "InsufficientBalance", "AccountNotFound",
                            "StateTransition", "InvalidTransactionPayload"})
        => (store = last.pre_store /\ current_chain_state = last.pre_state)

\* C4: nonce monotonicity: the applied transactions of a sender (seeded with
\* nonce 0) carry the nonces 1, 2, ... and the stored nonce is the last of them
NonceMonotonicity ==
    \A pk \in Keys :
        LET ns == AppliedNonces(pk)
        IN  /\ \A i \in DOMAIN ns : ns[i] = i
            /\ ns # <<>> => /\ get_account(store, pk) # None
                            /\ get_account(store, pk)[1].nonce = ns[Len(ns)]

\* C5: balance conservation: a successfully applied block of Transfers leaves
\* the sum of the wallet balances unchanged, and a block of one Transfer between
\* two different wallets debits the sender and credits the recipient by amount
BalanceConservation ==
    (AppliedOk /\ \A i \in DOMAIN LastCommitted.transactions :
                        LastCommitted.transactions[i].payload[1] = "Transfer")
        => /\ TotalBalance(store) = TotalBalance(last.pre_store)
           /\ \A tx \in {LastCommitted.transactions[i] : i \in DOMAIN LastCommitted.transactions} :
                 (Len(LastCommitted.transactions) = 1 /\ tx.recipient # WalletAddr(tx.sender))
                    => /\ BalanceOf(store, tx.sender)
                            = BalanceOf(last.pre_store, tx.sender) - tx.payload[2]
                       /\ BalanceOf(store, tx.recipient[2])
                            = BalanceOf(last.pre_store, tx.recipient[2]) + tx.payload[2]

\* C6: lock order: no state has one thread holding the chain-state lock and
\* waiting for the mempool lock while another holds the mempool lock and waits
\* for the chain-state lock
NoLockCycle ==
    ~ \E t \in Threads, u \in Threads :
        /\ t # u
        /\ pc[t] = "submit_lock_mempool" /\ chain_state_lock = t
        /\ pc[u] = "produce_lock_chain_state" /\ mempool_lock = u

\* C7: with no other thread inside the Runtime, produce_block never asks for
\* the chain-state lock while it holds it, and never ends without returning
ProduceBlockReturns ==
    \A t \in Threads :
        (\A u \in Others(t) : pc[u] = "idle")
            => /\ ~(pc[t] = "produce_relock_chain_state" /\ chain_state_lock = t)
               /\ pc[t] \notin {"deadlocked", "panicked"}

\* C8: after a commit the chain state in memory is the one
\* storage.get_chain_state() returns, and it names the block just committed
CachedChainStateIsPersisted ==
    AppliedOk
        => /\ get_chain_state(store) = current_chain_state
           /\ current_chain_state[1].latest_block_hash = LastCommitted.hash
           /\ current_chain_state[1].latest_block_index = LastCommitted.index

\* C9: Runtime::new on a fresh store succeeds and leaves the genesis block and
\* the initial chain state readable from storage and in the cache
RuntimeNewOnFreshStore ==
    (last.op = "Runtime::new" /\ last.pre_store = EmptyStore)
        => /\ last.result = "Ok"
           /\ get_chain_state(store) = Some(InitialChainState)
           /\ get_block(store, GenesisBlock.hash) = Ok(Some(GenesisBlock))
           /\ chain_state = Some(InitialChainState)

\* a store that initialize_chain has written its chain state to, or whose
\* chain_state tree holds one
ChainStatePresent(s) ==
    \/ LenPrefixedKey("str", GlobalCurrent) \in DOMAIN s.db
    \/ get_chain_state(s) # None

\* C10: initialize_chain on a store that already holds a chain state returns
\* Ok and changes no tree
InitializeChainIdempotent ==
    (last.op = "initialize_chain" /\ ChainStatePresent(last.pre_store))
        => (last.result = "Ok" /\ store = last.pre_store)

-----------------------------------------------------------------------------
(* One block handed to apply_block (SpecApply) *)

\* apply_block was called on the recorded block and sled did not fail the batch
AppliedWithoutStorageFailure == last.op = "apply_block" /\ last.result # "StorageError"

AppliedBlock == last.block[1]

\* a Transfer to the wallet address of another key
IsTransferToOther(tx) ==
    /\ tx.payload[1] = "Transfer"
    /\ tx.recipient[1] = "Wallet"
    /\ tx.recipient[2] # tx.sender

\* the recipient of a transfer has no account or a wallet in store s
RecipientIsWalletOrAbsent(s, tx) ==
    \/ get_account(s, tx.recipient[2]) = None
    \/ get_account(s, tx.recipient[2])[1].kind = "Wallet"

\* the sender of tx has a wallet in store s
SenderIsWallet(s, tx) ==
    /\ get_account(s, tx.sender) # None
    /\ get_account(s, tx.sender)[1].kind = "Wallet"

\* C11: a block of one Transfer of m from wallet A = {b >= m, n} to B # A with
\* nonce n + 1 is committed at the next index, and get_account then returns
\* A = {b - m, n + 1} and B = {previous balance + m, previous nonce}, or
\* Wallet{m, 0} for a B that had no account
TransferReadBack ==
    (AppliedWithoutStorageFailure /\ Len(AppliedBlock.transactions) = 1)
        => LET tx == AppliedBlock.transactions[1]
               m == tx.payload[2]
               A == get_account(last.pre_store, tx.sender)
               B == get_account(last.pre_store, tx.recipient[2])
           IN  (/\ IsTransferToOther(tx)
                /\ SenderIsWallet(last.pre_store, tx)
                /\ RecipientIsWalletOrAbsent(last.pre_store, tx)
                /\ A[1].balance >= m
                /\ tx.nonce = A[1].nonce + 1)
                => /\ last.result = "Ok"
                   /\ committed = <<AppliedBlock>>
                   /\ AppliedBlock.index = last.pre_state[1].latest_block_index + 1
                   /\ get_account(store, tx.sender) = Some(Wallet(A[1].balance - m, A[1].nonce + 1))
                   /\ get_account(store, tx.recipient[2])
                        = IF B = None THEN Some(Wallet(m, 0))
                          ELSE Some([B[1] EXCEPT !.balance = @ + m])

\* C12: a block of two Transfers from wallet A = {b, n} with nonces n + 1 and
\* n + 2 and amounts m1 + m2 <= b is applied, and get_account then returns A
\* with nonce n + 2 and balance b - m1 - m2
SameSenderAppliedInOrder ==
    (AppliedWithoutStorageFailure /\ Len(AppliedBlock.transactions) = 2)
        => LET t1 == AppliedBlock.transactions[1]
               t2 == AppliedBlock.transactions[2]
               A == get_account(last.pre_store, t1.sender)
           IN  (/\ t1.sender = t2.sender
                /\ IsTransferToOther(t1) /\ IsTransferToOther(t2)
                /\ SenderIsWallet(last.pre_store, t1)
                /\ RecipientIsWalletOrAbsent(last.pre_store, t1)
                /\ RecipientIsWalletOrAbsent(last.pre_store, t2)
                /\ t1.nonce = A[1].nonce + 1
                /\ t2.nonce = A[1].nonce + 2
                /\ t1.payload[2] + t2.payload[2] <= A[1].balance)
                => /\ last.result = "Ok"
                   /\ get_account(store, t1.sender)
                        = Some(Wallet(A[1].balance - t1.payload[2] - t2.payload[2], A[1].nonce + 2))

\* C13: a block of two transactions of A (stored nonce n) with nonces n + 1 and
\* n + 3, the first one applicable, is rejected with InvalidNonce(expected
\* n + 2, got n + 3), and the store and the chain state are as before the call
NonceGapRejected ==
    (AppliedWithoutStorageFailure /\ Len(AppliedBlock.transactions) = 2)
        => LET t1 == AppliedBlock.transactions[1]
               t2 == AppliedBlock.transactions[2]
               A == get_account(last.pre_store, t1.sender)
           IN  (/\ t1.sender = t2.sender
                /\ IsTransferToOther(t1)
                /\ SenderIsWallet(last.pre_store, t1)
                /\ RecipientIsWalletOrAbsent(last.pre_store, t1)
                /\ A[1].balance >= t1.payload[2]
                /\ t1.nonce = A[1].nonce + 1
                /\ t2.nonce = A[1].nonce + 3)
                => /\ last.result = "InvalidNonce"
                   /\ last.detail = <<A[1].nonce + 2, A[1].nonce + 3>>
                   /\ store = last.pre_store
                   /\ current_chain_state = last.pre_state

\* C14: a block of one Transfer from a wallet with the right nonce fails with
\* InsufficientBalance, leaving the store and the chain state as they were,
\* when the amount exceeds the balance; an amount equal to the balance is
\* accepted and get_account then returns the sender with balance 0
InsufficientBalanceRejected ==
    (AppliedWithoutStorageFailure /\ Len(AppliedBlock.transactions) = 1)
        => LET tx == AppliedBlock.transactions[1]
               m == tx.payload[2]
               A == get_account(last.pre_store, tx.sender)
           IN  (/\ IsTransferToOther(tx)
                /\ SenderIsWallet(last.pre_store, tx)
                /\ RecipientIsWalletOrAbsent(last.pre_store, tx)
                /\ tx.nonce = A[1].nonce + 1)
                => /\ m > A[1].balance
                        => /\ last.result = "InsufficientBalance"
                           /\ store = last.pre_store
                           /\ current_chain_state = last.pre_state
                   /\ m = A[1].balance
                        => /\ last.result = "Ok"
                           /\ get_account(store, tx.sender)[1].balance = 0

\* C17: no transaction is applied twice: the committed blocks hold no
\* transaction hash twice
AtMostOnceInclusion ==
    \A i \in DOMAIN AppliedTransactions, j \in DOMAIN AppliedTransactions :
        AppliedTransactions[i].hash = AppliedTransactions[j].hash => i = j

-----------------------------------------------------------------------------
(* Runtime operations *)

\* C15: replay prevention: a transaction committed in a block before the
\* Runtime was opened is never admitted to its mempool: submit_transaction
\* rejects it and leaves the mempool unchanged
ReplayRejected ==
    \A i \in DOMAIN mempool :
        \A j \in DOMAIN AppliedTransactions : mempool[i] # AppliedTransactions[j]

\* the nonce of the account storage holds for a key (0 when there is none)
StoredNonce(s, pk) ==
    IF get_account(s, pk) = None THEN 0 ELSE get_account(s, pk)[1].nonce

\* C16: submit_transaction returns Ok and appends the transaction to the tail
\* of the mempool when its signature verifies and its nonce is greater than the
\* sender's stored nonce; otherwise it returns InvalidTransaction; either way
\* storage and the chain state are unchanged, and nothing else changes the mempool
SubmitAdmitsExactlyTheValid ==
    [][ /\ (last' # last /\ last'.op = "submit_transaction")
            => LET tx == last'.detail[2]
               IN  /\ store' = store
                   /\ chain_state' = chain_state
                   /\ IF /\ tx.hash = TxHash(tx)
                         /\ Verify(tx.sender, tx.hash, tx.signature)
                         /\ tx.nonce > StoredNonce(store, tx.sender)
                      THEN last'.result = "Ok" /\ mempool' = Append(mempool, tx)
                      ELSE last'.result = "InvalidTransaction" /\ mempool' = mempool
        /\ mempool' # mempool
            => /\ last'.op = "submit_transaction"
               /\ last'.result = "Ok"
               /\ mempool' = Append(mempool, last'.detail[2])
               /\ last'.detail[2].nonce > StoredNonce(store, last'.detail[2].sender)
      ]_vars

\* C16 witness: a transaction has been admitted and another one rejected
SubmitAdmitsWitness ==
    /\ mempool # <<>>
    /\ last.op = "submit_transaction"
    /\ last.result = "InvalidTransaction"

\* produce_block has returned its block to thread t
ProduceBlockSucceeded(t) ==
    /\ pc[t] = "idle"
    /\ last.op = "produce_block"
    /\ last.result = "Ok"
    /\ last.detail = <<t>>

FailedProduceKeepsMempool ==
    [][ /\ \A t \in Threads :
            pc[t] = "produce_lock_chain_state" => (mempool_lock = t /\ mempool' = mempool)
        /\ (last' # last /\ last'.op = "produce_block" /\ last'.result # "Ok")
            => mempool' = mempool
      ]_vars

\* C19 witness: produce_block has failed on a missing previous block with
\* transactions pending
FailedProduceWitness ==
    /\ last.op = "produce_block"
    /\ last.result = "NotFound"
    /\ mempool # <<>>

\* C20: height index consistency: for every i up to the latest block index of
\* the chain state, get_block_by_height(i) returns a block of index i, and
\* get_block of its hash returns the same block
HeightIndexConsistency ==
    current_chain_state # None
        => \A i \in 0..current_chain_state[1].latest_block_index :
              LET b == get_block_by_height(store, i)
              IN  /\ b.ok
                  /\ b.val # None
                  /\ b.val[1].index = i
                  /\ get_block(store, b.val[1].hash) = b

-----------------------------------------------------------------------------
(* The chain after a commit *)

\* C21: the chain can keep growing: once a block is committed, get_block of
\* the chain state's latest_block_hash returns that block, so the block that
\* follows finds its predecessor
ChainKeepsGrowing ==
    AppliedOk => get_block(store, current_chain_state[1].latest_block_hash)
                    = Ok(Some(LastCommitted))

\* the number of times x occurs in the sequence q
Count(q, x) == Cardinality({i \in DOMAIN q : q[i] = x})

\* C22: after a block is committed, get_transaction of the hash of each of its
\* transactions returns that transaction, and get_transactions_by_block of its
\* hash returns the transactions of the block, each as often as the block holds it
CommittedTransactionsReadBack ==
    AppliedOk =>
        LET txs == LastCommitted.transactions
            found == get_transactions_by_block(store, LastCommitted.hash)
        IN  /\ \A i \in DOMAIN txs : get_transaction(store, txs[i].hash) = Ok(Some(txs[i]))
            /\ found.ok
            /\ Len(found.val) = Len(txs)
            /\ \A i \in DOMAIN txs : Count(found.val, txs[i]) = Count(txs, txs[i])

-----------------------------------------------------------------------------
(* One block handed to validate_block (SpecValidate) *)

ValidatedBlock == last.op = "validate_block" /\ last.block # None

\* the header checks: index, prev_hash and hash
HeaderMatches(block, state) ==
    /\ block.index = state.latest_block_index + 1
    /\ block.prev_hash = state.latest_block_hash
    /\ BlockHash(block) = block.hash

\* the blocks tree holds a record under the hash
BlockIsStored(s, hash) == RawKey("hash", hash) \in DOMAIN s.blocks

\* the timestamp of the record the blocks tree holds under the hash
StoredTimestamp(s, hash) == s.blocks[RawKey("hash", hash)].timestamp

\* C23: validate_block returns Ok exactly when index, prev_hash and hash match,
\* the timestamp is greater than that of the block stored at prev_hash and every
\* transaction signature verifies; it returns NotFound when the header matches
\* and no block is stored at prev_hash, BlockValidation in the other cases; it
\* changes neither the store nor the chain state
ValidateBlockContract ==
    ValidatedBlock =>
        LET block == last.block[1]
            state == last.pre_state[1]
            s == last.pre_store
            valid == /\ HeaderMatches(block, state)
                     /\ BlockIsStored(s, block.prev_hash)
                     /\ block.timestamp > StoredTimestamp(s, block.prev_hash)
                     /\ \A i \in DOMAIN block.transactions : VerifySignature(block.transactions[i])
        IN  /\ last.result = "Ok" <=> valid
            /\ ~valid =>
                  IF HeaderMatches(block, state) /\ ~BlockIsStored(s, block.prev_hash)
                  THEN last.result = "NotFound"
                  ELSE last.result = "BlockValidation"
            /\ store = s
            /\ current_chain_state = last.pre_state

-----------------------------------------------------------------------------
(* Block production *)

\* every field of the thread-independent state but the record of the last call
UnchangedByFailedCall ==
    UNCHANGED <<store, current_chain_state, committed, runtime, mempool, chain_state,
                mempool_lock, chain_state_lock, poisoned, pc, local>>

\* C24: generate_block fails with NoPendingTransactions on an empty slice, and
\* produce_block on an empty mempool returns that error and changes nothing;
\* on a non-empty mempool the block generated has index prev.index + 1,
\* prev_hash prev.hash, nonce 0, the mempool's transactions in order and its
\* recomputed hash, and validate_block accepts it against the chain state when
\* every transaction signature verifies
GeneratedBlockIsValid ==
    [][ /\ generate_block(<<>>, GenesisBlock) = Err("NoPendingTransactions")
        /\ \A t \in Threads :
            /\ (ProduceBlock(t) /\ mempool = <<>>)
                => /\ last'.op = "produce_block"
                   /\ last'.result = "NoPendingTransactions"
                   /\ UnchangedByFailedCall
            /\ (pc[t] = "produce_lock_chain_state" /\ pc'[t] = "produce_relock_chain_state")
                => LET block == local'[t]
                       prev == get_block(store, chain_state[1].latest_block_hash).val[1]
                   IN  /\ block.index = prev.index + 1
                       /\ block.prev_hash = prev.hash
                       /\ block.nonce = 0
                       /\ block.transactions = mempool
                       /\ block.hash = BlockHash(block)
                       /\ (\A i \in DOMAIN mempool : VerifySignature(mempool[i]))
                            => validate_block(store, block, chain_state[1]) = "Ok"
      ]_vars

\* C24 witness: a thread holds the block generated from a mempool of two transactions
GeneratedBlockWitness ==
    \E t \in Threads :
        /\ pc[t] = "produce_relock_chain_state"
        /\ Len(local[t].transactions) = 2
        /\ local[t].transactions = mempool

\* SystemTime::now() in seconds since the epoch: what the clock may read when
\* a block is produced
NowSeconds == 0..MaxNowSeconds

Max(a, b) == IF a >= b THEN a ELSE b

\* C25: the timestamp of a generated block is max(now_seconds, prev.timestamp + 1)
\* whatever the wall clock reads at production: it is not earlier than the
\* wall-clock time and it is greater than the previous block's timestamp
GeneratedTimestampFollowsClock ==
    last.block # None =>
        LET block == last.block[1]
            prev == get_block(last.pre_store, block.prev_hash).val[1]
        IN  \A now \in NowSeconds :
                /\ block.timestamp = Max(now, prev.timestamp + 1)
                /\ block.timestamp >= now
                /\ block.timestamp > prev.timestamp

\* the block carries a signature of the authorized signer over its hash
SignedByAuthority(block) ==
    /\ BlockSignature(block) # None
    /\ Verify(AuthorizedSigner, block.hash, BlockSignature(block)[1])

\* C26: consensus validate_block accepts a block only if its hash re-derives,
\* it carries a signature of the authorized signer over its hash and (past
\* genesis) its predecessor is older; no block without such a signature is
\* ever committed
OnlyAuthorizedBlocksCommitted ==
    \A i \in DOMAIN committed :
        LET block == committed[i]
        IN  /\ consensus_validate_block(block) = "Ok"
                => /\ BlockHash(block) = block.hash
                   /\ SignedByAuthority(block)
            /\ SignedByAuthority(block)

-----------------------------------------------------------------------------
(* Contracts *)

\* C30: a block of one ContractDeploy from sender s (stored nonce n, tx.nonce
\* n + 1) is applied; get_account(s) then returns the Contract account whose
\* code_hash is the contract id of (s, wasm) and whose nonce is n + 1, and the
\* wasm is stored under that id
DeployReplacesSenderAccount ==
    (AppliedWithoutStorageFailure /\ Len(AppliedBlock.transactions) = 1)
        => LET tx == AppliedBlock.transactions[1]
               s == get_account(last.pre_store, tx.sender)
               id == ContractIdOf(tx.sender, tx.payload[2])
           IN  (/\ tx.payload[1] = "ContractDeploy"
                /\ s # None
                /\ tx.nonce = s[1].nonce + 1)
                => /\ last.result = "Ok"
                   /\ get_contract_code(store, id) = Some(tx.payload[2])
                   /\ get_account(store, tx.sender) = Some(ContractAccount(id, s[1].nonce + 1))

\* the transaction is handed to the contract engine
IsContractTransaction(tx) == tx.payload[1] \in {"ContractDeploy", "ContractCall"}

\* C29: a contract-execution failure is surfaced: when the engine's
\* deploy_contract and call_contract return an error, apply_block does not
\* return Ok for a block that holds a deployment or a call
ContractFailureSurfaced ==
    (/\ last.op = "apply_block"
     /\ last.block # None
     /\ last.detail = <<FailingEngine>>
     /\ \E i \in DOMAIN AppliedBlock.transactions :
            IsContractTransaction(AppliedBlock.transactions[i]))
        => /\ last.result # "Ok"
           /\ committed = <<>>

-----------------------------------------------------------------------------
(* A reader racing with a commit (SpecApplySteps) *)

\* the store once the block is committed: the store apply_block leaves when it
\* returns Ok, the store as it was when the block is rejected
PostCommitStore ==
    LET r == apply_block(last.pre_store, AppliedBlock, last.pre_state[1], FALSE)
    IN  IF r.result = "Ok" THEN r.store ELSE last.pre_store

-----------------------------------------------------------------------------
(* Credits and debits of one block (SpecApply) *)

\* C33: credits are coalesced within a block: two Transfers to the same wallet
\* B raise get_account(B).balance by the sum of both amounts; and when B is
\* credited by the first transaction and sends the second, B ends with its
\* balance plus the credit minus the debit and its nonce incremented
CreditsCoalesced ==
    (AppliedWithoutStorageFailure /\ Len(AppliedBlock.transactions) = 2)
        => LET t1 == AppliedBlock.transactions[1]
               t2 == AppliedBlock.transactions[2]
               s == last.pre_store
               B == t1.recipient[2]
               m1 == t1.payload[2]
               m2 == t2.payload[2]
               S1 == get_account(s, t1.sender)
               S2 == get_account(s, t2.sender)
           IN  /\ (/\ IsTransferToOther(t1) /\ IsTransferToOther(t2)
                   /\ t1.recipient = t2.recipient
                   /\ SenderIsWallet(s, t1) /\ SenderIsWallet(s, t2)
                   /\ RecipientIsWalletOrAbsent(s, t1)
                   /\ t1.nonce = S1[1].nonce + 1
                   /\ t2.nonce = S2[1].nonce + (IF t1.sender = t2.sender THEN 2 ELSE 1)
                   /\ m1 <= S1[1].balance
                   /\ m2 <= S2[1].balance - (IF t1.sender = t2.sender THEN m1 ELSE 0))
                   => /\ last.result = "Ok"
                      /\ get_account(store, B) # None
                      /\ get_account(store, B)[1].balance = BalanceOf(s, B) + m1 + m2
               /\ (/\ IsTransferToOther(t1) /\ IsTransferToOther(t2)
                   /\ t2.sender = B
                   /\ SenderIsWallet(s, t1) /\ SenderIsWallet(s, t2)
                   /\ RecipientIsWalletOrAbsent(s, t2)
                   /\ t1.nonce = S1[1].nonce + 1
                   /\ t2.nonce = S2[1].nonce + 1
                   /\ m1 <= S1[1].balance
                   /\ m2 <= S2[1].balance + m1)
                   => /\ last.result = "Ok"
                      /\ get_account(store, B)
                            = Some(Wallet(S2[1].balance + m1 - m2
                                            + (IF t2.recipient[2] = B THEN m2 ELSE 0),
                                          S2[1].nonce + 1))

\* C34: a block of one Transfer from wallet A = {b, n} to A itself, of an
\* amount m <= b with nonce n + 1, is applied and leaves get_account(A) with
\* balance b and nonce n + 1
SelfTransferKeepsBalance ==
    (AppliedWithoutStorageFailure /\ Len(AppliedBlock.transactions) = 1)
        => LET tx == AppliedBlock.transactions[1]
               A == get_account(last.pre_store, tx.sender)
           IN  (/\ tx.payload[1] = "Transfer"
                /\ tx.recipient = WalletAddr(tx.sender)
                /\ SenderIsWallet(last.pre_store, tx)
                /\ tx.payload[2] <= A[1].balance
                /\ tx.nonce = A[1].nonce + 1)
                => /\ last.result = "Ok"
                   /\ get_account(store, tx.sender) = Some(Wallet(A[1].balance, A[1].nonce + 1))

-----------------------------------------------------------------------------
(* The reserved fields of the chain state (Spec) *)

ReservedFieldsAtGenesis(state) ==
    /\ state.accounts_root_hash = ZeroHash
    /\ state.total_supply = 0

\* C37: the chain state of the caller, the chain state get_chain_state returns
\* and the chain state record the last batch wrote all have an all-zero
\* accounts_root_hash and total_supply 0, and apply_block leaves both fields
\* of the caller's chain state as they were before the call
ChainStateReservedFieldsFrozen ==
    /\ current_chain_state # None => ReservedFieldsAtGenesis(current_chain_state[1])
    /\ get_chain_state(store) # None => ReservedFieldsAtGenesis(get_chain_state(store)[1])
    /\ LenPrefixedKey("str", GlobalCurrent) \in DOMAIN store.db
          => ReservedFieldsAtGenesis(store.db[LenPrefixedKey("str", GlobalCurrent)])
    /\ (last.op = "apply_block" /\ last.pre_state # None)
          => /\ current_chain_state[1].accounts_root_hash = last.pre_state[1].accounts_root_hash
             /\ current_chain_state[1].total_supply = last.pre_state[1].total_supply

\* C37 witness: apply_block has committed a second block and moved both the
\* cached and the written chain state to index 2
ChainStateReservedFieldsWitness ==
    /\ AppliedOk
    /\ Len(committed) = 2
    /\ current_chain_state[1].latest_block_index = 2
    /\ store.db[LenPrefixedKey("str", GlobalCurrent)].latest_block_index = 2

-----------------------------------------------------------------------------
(* Progress of the mempool (SpecRuntimeProducing) *)

\* apply_block's checks of one transfer against store s: signature, stored
\* sender wallet, nonce and balance
ApplicableOnItsOwn(s, tx) ==
    /\ VerifySignature(tx)
    /\ IsTransferToOther(tx)
    /\ SenderIsWallet(s, tx)
    /\ RecipientIsWalletOrAbsent(s, tx)
    /\ tx.nonce = get_account(s, tx.sender)[1].nonce + 1
    /\ tx.payload[2] <= get_account(s, tx.sender)[1].balance

\* a block that holds tx is stored and the chain state has reached its index
CommittedInABlock(tx) ==
    \E i \in 1..MaxBlocks :
        /\ get_block_by_height(store, i).ok
        /\ get_block_by_height(store, i).val # None
        /\ tx \in Range(get_block_by_height(store, i).val[1].transactions)
        /\ chain_state # None
        /\ chain_state[1].latest_block_index >= i

\* C35: with produce_block invoked repeatedly, a transaction of the mempool
\* that is applicable on its own is eventually committed in a block
ApplicableTransactionsProgress ==
    \A tx \in SubmitPool :
        (runtime = "up" /\ tx \in Range(mempool) /\ ApplicableOnItsOwn(store, tx))
            ~> CommittedInABlock(tx)

\* C35, the case the claim is about: an applicable transaction waits in the mempool
ApplicableTransactionWaits ==
    \E tx \in SubmitPool :
        runtime = "up" /\ tx \in Range(mempool) /\ ApplicableOnItsOwn(store, tx)

-----------------------------------------------------------------------------
(* Addresses and accounts of the wrong kind (SpecKinds) *)

\* the sender of tx is stored and tx carries the nonce apply_block expects
SenderKnownWithNextNonce(s, tx) ==
    /\ get_account(s, tx.sender) # None
    /\ tx.nonce = get_account(s, tx.sender)[1].nonce + 1

\* a Transfer that names a Contract address, or whose sender or recipient
\* account in store s is a Contract account
TransferKindMismatch(s, tx) ==
    /\ tx.payload[1] = "Transfer"
    /\ \/ tx.recipient[1] = "Contract"
       \/ (get_account(s, tx.sender) # None /\ get_account(s, tx.sender)[1].kind = "Contract")
       \/ /\ tx.recipient[1] = "Wallet"
          /\ get_account(s, tx.recipient[2]) # None
          /\ get_account(s, tx.recipient[2])[1].kind = "Contract"

\* a ContractCall that names a Wallet address
CallKindMismatch(tx) == tx.payload[1] = "ContractCall" /\ tx.recipient[1] = "Wallet"

\* C36: a block that holds a transaction of a stored sender, with the next
\* nonce, whose recipient kind does not fit its payload is rejected and
\* neither the store nor the chain state changes; when
\* the transaction is the first of the block, its sender is stored, its nonce
\* is the next one and a wallet sender can pay, the error is StateTransition
\* for a Transfer and InvalidTransactionPayload for a ContractCall
KindMismatchRejected ==
    AppliedWithoutStorageFailure
        => LET txs == AppliedBlock.transactions
               s == last.pre_store
               tx == txs[1]
           IN  /\ (\E i \in DOMAIN txs :
                        /\ TransferKindMismatch(s, txs[i]) \/ CallKindMismatch(txs[i])
                        /\ SenderKnownWithNextNonce(s, txs[i]))
                     => /\ last.result # "Ok"
                        /\ store = s
                        /\ current_chain_state = last.pre_state
               /\ (/\ TransferKindMismatch(s, tx)
                   /\ SenderKnownWithNextNonce(s, tx)
                   /\ get_account(s, tx.sender)[1].kind = "Wallet"
                         => tx.payload[2] <= get_account(s, tx.sender)[1].balance)
                     => last.result = "StateTransition"
               /\ (CallKindMismatch(tx) /\ SenderKnownWithNextNonce(s, tx))
                     => last.result = "InvalidTransactionPayload"

-----------------------------------------------------------------------------
(* Signatures and hashes (SpecTypes) *)

\* the last operation on the subject
LastOp == subject.ops[Len(subject.ops)]

\* neither sign nor an assignment to the signature has happened
NeverSigned == \A i \in DOMAIN subject.ops : subject.ops[i].op \notin {"sign", "set_signature"}

\* C31: verify_signature is true after sign with the key of tx.sender; it is
\* false on a transaction that was never signed, false after a change of a
\* hashed field of a transaction that verified, with the stored hash recomputed
\* or not, and false after a change of the signature of a transaction that verified
SignatureRoundTrip ==
    /\ NeverSigned => ~VerifySignature(subject.tx)
    /\ subject.ops # <<>> =>
        /\ (LastOp.op = "sign" /\ LastOp.arg = subject.tx.sender) => VerifySignature(subject.tx)
        /\ (LastOp.op = "set_hashed_field" /\ VerifySignature(LastOp.tx))
                => ~VerifySignature(subject.tx)
        /\ (LastOp.op = "set_signature" /\ VerifySignature(LastOp.tx))
                => ~VerifySignature(subject.tx)

\* C31 witness: a transaction was signed by its sender, then a hashed field
\* was changed and the stored hash recomputed
SignatureRoundTripWitness ==
    /\ Len(subject.ops) = 2
    /\ subject.ops[1].op = "sign"
    /\ VerifySignature(LastOp.tx)
    /\ LastOp.op = "set_hashed_field"
    /\ LastOp.arg = TRUE
    /\ subject.tx.hash = TxHash(subject.tx)

SameHashedFields(t1, t2) ==
    /\ t1.sender = t2.sender /\ t1.nonce = t2.nonce /\ t1.timestamp = t2.timestamp
    /\ t1.recipient = t2.recipient /\ t1.payload = t2.payload /\ t1.metadata = t2.metadata

SameBlockHashedFields(b1, b2) ==
    /\ b1.index = b2.index /\ b1.timestamp = b2.timestamp /\ b1.prev_hash = b2.prev_hash
    /\ b1.nonce = b2.nonce /\ b1.transactions = b2.transactions /\ b1.metadata = b2.metadata

-----------------------------------------------------------------------------
(* Credits at the top of the u64 range (SpecOverflow) *)

\* the account record the batch of the last apply_block wrote for key pk
WrittenAccount(pk) == store.db[LenPrefixedKey("pk", pk)]

\* C38: when apply_block commits a block of one Transfer of m to another
\* wallet B, the balance it writes for B is B's previous balance plus m, as
\* unbounded integers
CreditNeverWraps ==
    (AppliedOk /\ Len(AppliedBlock.transactions) = 1)
        => LET tx == AppliedBlock.transactions[1]
           IN  (IsTransferToOther(tx) /\ RecipientIsWalletOrAbsent(last.pre_store, tx))
                => WrittenAccount(tx.recipient[2]).balance
                        = BalanceOf(last.pre_store, tx.recipient[2]) + tx.payload[2]

-----------------------------------------------------------------------------
(* Framing (SpecFrames) *)

\* from_bytes returned a frame that carries message m and the size of its encoding
DecodedAs(decoded, m) ==
    /\ decoded.ok
    /\ decoded.val.message = m
    /\ decoded.val.length = Len(SerializeMessage(m))

\* C39: from_bytes of the bytes of the frame of a message yields the message
\* with the size of its encoding as length, and the i-th receive_message on a
\* stream returns the i-th message written to it by send_message
FramingRoundTrip ==
    /\ (sync.phase = "frame" /\ sync.decoded # None) => DecodedAs(sync.decoded[1], sync.message[1])
    /\ sync.phase = "stream" =>
            \A i \in DOMAIN sync.received :
                sync.received[i].ok /\ sync.received[i].val = sync.sent[i]

-----------------------------------------------------------------------------
(* Handshake (SpecHandshake) *)

\* the server has recorded the client and the client has gone on to GetChainHead
HandshakeCompleted ==
    /\ sync.client_id \in sync.recorded
    /\ GetChainHead \in Range(sync.client_sent)

\* C40: a connection of sync_with_peer to handle_connection leads to a
\* completed handshake: the client recorded by the server and GetChainHead
\* sent; and handle_connection records a peer only when it has read a
\* HandshakeAck of version 1 from it
HandshakeCompletes ==
    /\ (sync.client_pc = "connected") ~> HandshakeCompleted
    /\ [](sync.recorded \subseteq sync.acked)

====
